---- MODULE Spec2Model ----
(***************************************************************************)
(* Postgres -> ClickHouse connector: the CDC orchestrator                  *)
(* (src/pg_replication_pipeline.py, src/pipelines/pg/log_table.py) and the *)
(* incremental watermark path (src/pipelines/pg/db_utils.py,               *)
(* src/pipelines/pg/stream_tables.py, src/pipelines/pg/travel/log_table.py,*)
(* src/pipelines/pg/common_tables.py), the scheduler (src/main.py,         *)
(* src/pipelines/pg/__init__.py), db_utils.fetch_batched, and the inline-ad*)
(* transformers with their parsers (src/pipelines/pg/parsers.py,           *)
(* src/utils.py).                                                          *)
(*                                                                         *)
(* The pg_replication package (init_replication, replication_resource) and *)
(* the dlt pipeline object are not part of the sources at hand; their      *)
(* behaviour is written down from the specification's sections 4.3, 4.4    *)
(* and 4.6 and is marked as such where it is defined.                      *)
(***************************************************************************)
EXTENDS Integers, Sequences, FiniteSets, TLC

\* ------------------------------------------------------------------ bounds
MaxRows == 2        \* source row ids are 1..MaxRows
MaxWal  == 2        \* number of change events the source writes
MaxRuns == 3        \* orchestrator invocations

Ids == 1..MaxRows

\* The three CDC resources: the whole-schema stream of main(), and the two
\* transformers of pipelines/pg/log_table.py.
Targets == {"main", "inline_ads", "inline_ads_legacy"}

VARIABLES
    target,       \* which CDC resource this deployment runs
    walLevel,     \* SHOW wal_level of the source
    role,         \* pg_roles row of current_user: "none" | "plain" | "replication" | "super"
    replicaFull,  \* REPLICA IDENTITY FULL: a DELETE event carries every column
    wal,          \* the source's change events, wal[i] has LSN i
    slot,         \* the replication slot: [exists, pin, confirmed]
    snapshot,     \* rows of the snapshot table persisted at slot creation
    dest,         \* destination table: id -> number of stored rows with that id
    destLsn,      \* LSN of the last change committed to the destination
    upto,         \* LSN up to which the current run's stream reads
    first_run,    \* pipe.first_run
    pc,           \* position of the current run
    runs,         \* invocations so far
    checked,      \* this run's _check_pg passed
    snapRun,      \* this run took the snapshot path
    slotGen,      \* number of init_replication(reset=True) calls so far
    loadedGen,    \* slotGen of the last completed snapshot load, 0 = none
    firstLo,      \* LSN the first stream batch after the last init started from, -1 = none yet
    lastBatch,    \* [lo, hi] of the last committed stream batch
    resetSeen,    \* first_run as it was read by the last init_replication call
    \* --- the incremental (watermark) path
    incPath,      \* "_stream_table" | "inline_ads" | "stream_table": the resource that runs
    incTable,     \* the table name it hands to get_last_record_info
    srcTab,       \* source table: id -> tracking timestamp, 0 = no such row
    chExists,     \* the destination table exists in ClickHouse
    chRows,       \* destination rows, a set of [id, ts]
    wm,           \* what the resource holds as its last value after the lookup
    wmCall,       \* the last lookup: what the warehouse did and what came back
    q,            \* the source query the resource built
    incPc,        \* position of the incremental run
    incRuns,      \* incremental runs so far
    fetched,      \* rows the last executed query returned
    before,       \* chRows as the last executed query found them
    quiet,        \* the run before this one completed, and no source write since its query
    prevCut,      \* the query executed before the last one returned LIMIT rows
    wroteSince,   \* the source was written since the last executed query
    wmHigh,       \* highest watermark a lookup of an earlier run returned, 0 = none
    wmSince,      \* the same, counted since the last cleanup that deleted rows
    clRun,        \* incRuns of the run after which the cleanup last ran
    \* --- main.py and pipelines/pg/__init__.py run()
    omode,        \* "oneshot" | "schedule": sys.argv[1] of main.py
    skipCleanup,  \* os.getenv("SKIP_CH_CLEANUP")
    opc,          \* position of the process
    oexc,         \* the exception in flight: "none" | "Exception" | "SystemExit"
    ofailed,      \* the sub-step of the current pg.run() that raised, "" = none
    ocause,       \* what that sub-step failed with, "" = none
    oexit,        \* exit code of the process, -1 = still running
    olog,         \* logging.exception was called for the current pg.run()
    ojobs,        \* safe_pg_pipeline calls so far
    osteps,       \* sub-steps of the current pg.run() that returned, in order
    oclOpened,    \* connections the cleanup of the current pg.run() opened
    oclStmts,     \* statements the cleanup of the current pg.run() executed
    ochLeft,      \* ClickHouse clients the process opened and has not closed
    \* --- db_utils.fetch_batched
    fbN,          \* rows of the query's result set; the rows are 1..fbN in cursor order
    fbB,          \* batch_size
    fbPc,         \* position of the generator
    fbPos,        \* rows the cursor has handed out
    fbBatch,      \* [lo, hi]: rows of the current batch not yet yielded
    fbOut,        \* rows yielded so far, in order
    fbSizes,      \* sizes of the non-empty batches fetched so far
    fbLast,       \* size of the last fetchmany result
    fbFetches,    \* fetchmany calls of this invocation
    fbExecs,      \* execute calls of this invocation
    fbConns,      \* connections opened so far
    fbInv,        \* invocations so far
    fbErr,        \* what the invocation raised: "none" | "connect" | "query" | "fetch"
    \* --- concurrent invocations of the two CDC entry points
    rEntry,       \* process -> "none" | "main" | "log_table": the entry point it runs
    rPc,          \* process -> position of its run
    rNext,        \* process -> index of the resource whose stream it opens next
    rHeld,        \* the streams being consumed: pairs <<process, resource index>>
    rRefusedBy,   \* process -> the process that held the slot it was refused, 0 = never refused
    rExit,        \* process -> exit code of its last run, -1 = none yet
    slotEx,       \* names of the replication slots that exist at the source
    pubTabs,      \* publication name -> its table set, NoPub = no such publication
    cfgTabs,      \* entry point -> the table list it is configured with
    rFirst,       \* entry point -> pipe.first_run of its pipeline
    rStarts,      \* runs started so far
    rEdits,       \* edits of the configured table lists so far
    \* --- the inline-ad transformers
    xVariant,     \* which transformer runs
    xRows,        \* the names of the rows of its batch, in order
    xPos,         \* rows processed so far
    xBy,          \* for each processed row: the parser that took it, or "skipped"
    xWarnings,    \* the names logged with "Unknown ad type", in order
    xYielded,     \* for each processed row: the number of records yielded for it
    xErr,         \* the transformer raised: the rest of the batch is not processed
    \* --- one parser of pipelines/pg/parsers.py applied to one row
    pIn,          \* how the row's payload is populated
    pPc,          \* position of the consumer of the parser's generator
    pIdx,         \* nested items consumed so far
    pOut          \* the records yielded so far, in order

cdcVars == <<target, walLevel, role, replicaFull, wal, slot, snapshot, dest, destLsn, upto,
             first_run, pc, runs, checked, snapRun, slotGen, loadedGen, firstLo,
             lastBatch, resetSeen>>

incVars == <<incPath, incTable, srcTab, chExists, chRows, wm, wmCall, q, incPc, incRuns,
             fetched, before, quiet, prevCut, wroteSince, wmHigh, wmSince, clRun>>

\* Variables of the parts added further down; every action above them leaves
\* them alone.
orchVars == <<omode, skipCleanup, opc, oexc, ofailed, ocause, oexit, olog, ojobs, osteps,
              oclOpened, oclStmts, ochLeft>>

fbVars == <<fbN, fbB, fbPc, fbPos, fbBatch, fbOut, fbSizes, fbLast, fbFetches, fbExecs,
            fbConns, fbInv, fbErr>>

replVars == <<rEntry, rPc, rNext, rHeld, rRefusedBy, rExit, slotEx, pubTabs, cfgTabs, rFirst,
              rStarts, rEdits>>

xfVars == <<xVariant, xRows, xPos, xBy, xWarnings, xYielded, xErr>>

pVars == <<pIn, pPc, pIdx, pOut>>

extVars == <<orchVars, fbVars, replVars, xfVars, pVars>>

vars == <<cdcVars, incVars, extVars>>

\* ----------------------------------------------------------------- source
Max(S) == CHOOSE x \in S : \A y \in S : y <= x

LastOp(r, l) ==
    LET idx == {i \in 1..l : wal[i].id = r}
    IN  IF idx = {} THEN "NONE" ELSE wal[Max(idx)].op

\* Rows of the source table as of LSN l.
LiveAt(l) == {r \in Ids : LastOp(r, l) = "INSERT"}

SrcRows == LiveAt(Len(wal))

NoSlot == [exists |-> FALSE, pin |-> 0, confirmed |-> 0]

NoBatch == [lo |-> 0, hi |-> 0]

\* -------------------------------------------------------------- preflight
\* src/pg_replication_pipeline.py:_check_pg. wal_level is compared after
\* lower(); the role row is refused when absent or when neither rolsuper nor
\* rolreplication is set.
Lower(s) == IF s = "LOGICAL" THEN "logical" ELSE s

check_pg ==
    IF Lower(walLevel) # "logical" THEN "wal_level"
    ELSE IF role = "none" \/ (role # "super" /\ role # "replication") THEN "privilege"
    ELSE "ok"

\* main() calls preflight() first; pipelines/pg/log_table.py:run() goes
\* straight to get_pipeline().
HasPreflight(t) == t = "main"

EntersSnapshotPath_Always == TRUE

\* `if pipe.first_run:` of both entry points.
EntersSnapshotPath == first_run

AfterInit_SkipLoad == "open"

\* What follows init_replication in the first-run branch: pipe.run(snapshot).
AfterInit == "snapload"

PersistSnapshots_Off == FALSE

\* persist_snapshots=True: the rows init_replication hands to pipe.run.
PersistSnapshots == TRUE

\* ------------------------------------------------------ warehouse writes
\* @dlt.transformer(write_disposition="append", primary_key="id") of
\* inline_ads and inline_ads_legacy.
TransformerDisposition == "append"

\* The write disposition of replication_resource and of the snapshot handle
\* (specification 4.6: merge/upsert by primary key).
ReplicationDisposition == "merge"

Disposition(t) == IF t = "main" THEN ReplicationDisposition ELSE TransformerDisposition

\* inline_ads reads row["name"] unguarded; a DELETE event that carries the
\* key columns only has no such field. legacy_inline_ad reads through get().
Raises(t, e) == t = "inline_ads" /\ e.op = "DELETE" /\ ~replicaFull

\* Number of flat records a transformer yields for an event: it never looks
\* at the operation, only at the row image.
Yields(e) == IF e.op = "DELETE" /\ ~replicaFull THEN 0 ELSE 1

\* Merge by primary key with hard delete (specification 4.4, 8).
MergeEvent(d, e) == [d EXCEPT ![e.id] = IF e.op = "DELETE" THEN 0 ELSE 1]

AppendRecord(d, r, n) == [d EXCEPT ![r] = @ + n]

WriteEvent(t, d, e) ==
    IF Disposition(t) = "merge" THEN MergeEvent(d, e)
    ELSE AppendRecord(d, e.id, Yields(e))

\* The events (lo, hi] written in LSN order.
RECURSIVE ApplyBatch(_, _, _, _)
ApplyBatch(t, d, lo, hi) ==
    IF lo >= hi THEN d
    ELSE ApplyBatch(t, WriteEvent(t, d, wal[lo + 1]), lo + 1, hi)

BatchRaises(t, lo, hi) == \E i \in (lo + 1)..hi : Raises(t, wal[i])

\* The snapshot rows written by pipe.run(snapshot) /
\* pipe.run([inline_ads(rows=snap_ads), inline_ads_legacy(rows=snap_fetch)]).
WriteSnapshot(t, d, rows) ==
    [r \in Ids |->
        IF r \notin rows THEN d[r]
        ELSE IF Disposition(t) = "merge" THEN 1 ELSE d[r] + 1]

AckPosition_Received == Len(wal)

\* The LSN the stream reader acknowledges after a committed batch
\* (specification 4.4).
AckPosition == destLsn

\* ------------------------------------------------------------------- Init
CdcInit ==
    /\ target \in Targets
    /\ walLevel \in {"logical", "LOGICAL", "replica"}
    /\ role \in {"none", "plain", "replication", "super"}
    /\ replicaFull \in BOOLEAN
    /\ target = "main" => ~replicaFull      \* the merge of main() never reads the image
    /\ wal = <<>>
    /\ slot = NoSlot
    /\ snapshot = {}
    /\ dest = [r \in Ids |-> 0]
    /\ destLsn = 0
    /\ upto = 0
    /\ first_run = TRUE
    /\ pc = "idle"
    /\ runs = 0
    /\ checked = FALSE
    /\ snapRun = FALSE
    /\ slotGen = 0
    /\ loadedGen = 0
    /\ firstLo = -1
    /\ lastBatch = NoBatch
    /\ resetSeen = TRUE


\* ---------------------------------------------------------- source writes
envVars == <<target, walLevel, role, replicaFull>>
runVars == <<slot, snapshot, dest, destLsn, upto, first_run, pc, runs, checked, snapRun,
             slotGen, loadedGen, firstLo, lastBatch, resetSeen>>

SourceInsert(r) ==
    /\ Len(wal) < MaxWal
    /\ r \notin SrcRows
    /\ wal' = Append(wal, [op |-> "INSERT", id |-> r])
    /\ UNCHANGED <<extVars, envVars, runVars, incVars>>

SourceDelete(r) ==
    /\ Len(wal) < MaxWal
    /\ r \in SrcRows
    /\ wal' = Append(wal, [op |-> "DELETE", id |-> r])
    /\ UNCHANGED <<extVars, envVars, runVars, incVars>>

\* ------------------------------------------------------- the orchestrator
\* python pg_replication_pipeline.py / python -m pipelines.pg.log_table
StartRun ==
    /\ pc \in {"idle", "done", "failed"}
    /\ runs < MaxRuns
    /\ runs' = runs + 1
    /\ checked' = FALSE
    /\ snapRun' = FALSE
    /\ pc' = IF HasPreflight(target) THEN "preflight" ELSE "decide"
    /\ upto' = 0
    /\ UNCHANGED <<extVars, incVars, envVars, wal, slot, snapshot, dest, destLsn, first_run,
                   slotGen, loadedGen, firstLo, lastBatch, resetSeen>>

\* preflight(): _check_pg() then _check_clickhouse(); either raises SystemExit.
Preflight ==
    /\ pc = "preflight"
    /\ \E chOk \in BOOLEAN :
          IF check_pg # "ok"
          THEN pc' = "failed" /\ checked' = FALSE
          ELSE /\ checked' = TRUE
               /\ pc' = IF chOk THEN "decide" ELSE "failed"
    /\ UNCHANGED <<extVars, incVars, envVars, wal, slot, snapshot, dest, destLsn, upto, first_run, runs,
                   snapRun, slotGen, loadedGen, firstLo, lastBatch, resetSeen>>

\* pipe = get_pipeline(); if pipe.first_run: ...
Decide ==
    /\ pc = "decide"
    /\ pc' = IF EntersSnapshotPath THEN "init" ELSE "open"
    /\ UNCHANGED <<extVars, incVars, envVars, wal, slot, snapshot, dest, destLsn, upto, first_run, runs,
                   checked, snapRun, slotGen, loadedGen, firstLo, lastBatch, resetSeen>>

\* init_replication(..., persist_snapshots=True, reset=True): drops the slot
\* and publication of that name, creates both again, the slot pinning a
\* snapshot at the current LSN, and persists the tables as of that snapshot.
\* Without the logical-decoding prerequisites the slot cannot be created.
InitReplication ==
    /\ pc = "init"
    /\ slotGen' = slotGen + 1
    /\ resetSeen' = first_run
    /\ snapRun' = TRUE
    /\ firstLo' = -1
    /\ lastBatch' = NoBatch
    /\ IF check_pg = "ok"
       THEN /\ slot' = [exists |-> TRUE, pin |-> Len(wal), confirmed |-> Len(wal)]
            /\ snapshot' = IF PersistSnapshots THEN SrcRows ELSE {}
            /\ pc' = AfterInit
       ELSE /\ slot' = NoSlot
            /\ snapshot' = {}
            /\ pc' = "failed"
    /\ UNCHANGED <<extVars, incVars, envVars, wal, dest, destLsn, upto, first_run, runs, checked, loadedGen>>

\* pipe.run(snapshot): the load of the whole snapshot; a completed load ends
\* the pipeline's first_run.
LoadSnapshot ==
    /\ pc = "snapload"
    /\ dest' = WriteSnapshot(target, dest, snapshot)
    /\ destLsn' = slot.pin
    /\ first_run' = FALSE
    /\ loadedGen' = slotGen
    /\ pc' = "open"
    /\ UNCHANGED <<extVars, incVars, envVars, wal, slot, snapshot, upto, runs, checked, snapRun, slotGen,
                   firstLo, lastBatch, resetSeen>>

\* pipe.run(replication_resource(SLOT, PUB)) / pipe.run([inline_ads,
\* inline_ads_legacy]) begins: the stream requests the changes the slot holds
\* since its confirmed LSN.
StreamOpen ==
    /\ pc = "open"
    /\ upto' = Len(wal)
    /\ pc' = "stream"
    /\ UNCHANGED <<extVars, incVars, envVars, wal, slot, snapshot, dest, destLsn, first_run, runs,
                   checked, snapRun, slotGen, loadedGen, firstLo, lastBatch, resetSeen>>

\* One decoded batch (confirmed, k] goes through the transformer and is
\* committed to the warehouse.
StreamCommit ==
    /\ pc = "stream"
    /\ \E k \in (slot.confirmed + 1)..upto :
          IF BatchRaises(target, slot.confirmed, k)
          THEN /\ pc' = "failed"
               /\ UNCHANGED <<dest, destLsn, upto, first_run, firstLo, lastBatch>>
          ELSE /\ dest' = ApplyBatch(target, dest, slot.confirmed, k)
               /\ destLsn' = k
               /\ first_run' = FALSE
               /\ firstLo' = IF firstLo = -1 THEN slot.confirmed ELSE firstLo
               /\ lastBatch' = [lo |-> slot.confirmed, hi |-> k]
               /\ pc' = "ack"
    /\ UNCHANGED <<extVars, incVars, envVars, wal, slot, snapshot, upto, runs, checked, snapRun, slotGen,
                   loadedGen, resetSeen>>

\* The slot's confirmed LSN is advanced once the batch is committed.
Ack ==
    /\ pc = "ack"
    /\ slot' = [slot EXCEPT !.confirmed = AckPosition]
    /\ pc' = "stream"
    /\ UNCHANGED <<extVars, incVars, envVars, wal, snapshot, dest, destLsn, upto, first_run, runs, checked,
                   snapRun, slotGen, loadedGen, firstLo, lastBatch, resetSeen>>

\* The replication connection drops while the reader waits for changes: the
\* reader backs off (specification 4.4, 7). Nothing the run committed or
\* acknowledged is touched.
StreamDisconnect ==
    /\ pc = "stream"
    /\ pc' = "retry"
    /\ UNCHANGED <<extVars, incVars, envVars, wal, slot, snapshot, dest, destLsn, upto, first_run, runs,
                   checked, snapRun, slotGen, loadedGen, firstLo, lastBatch, resetSeen>>

\* The reader reconnects and requests the changes since the slot's confirmed
\* LSN again (specification 4.4): StreamCommit reads from slot.confirmed.
StreamReconnect ==
    /\ pc = "retry"
    /\ pc' = "stream"
    /\ UNCHANGED <<extVars, incVars, envVars, wal, slot, snapshot, dest, destLsn, upto, first_run, runs,
                   checked, snapRun, slotGen, loadedGen, firstLo, lastBatch, resetSeen>>

\* logging.info("Run finished"): the requested changes are all delivered.
FinishRun ==
    /\ pc = "stream"
    /\ slot.confirmed >= upto
    /\ pc' = "done"
    /\ UNCHANGED <<extVars, incVars, envVars, wal, slot, snapshot, dest, destLsn, upto, first_run, runs,
                   checked, snapRun, slotGen, loadedGen, firstLo, lastBatch, resetSeen>>

\* The process dies between two steps; what is stored in the source, the
\* warehouse and the pipeline's state stays.
Crash ==
    /\ pc \in {"preflight", "decide", "init", "snapload", "open", "stream", "retry", "ack"}
    /\ pc' = "idle"
    /\ UNCHANGED <<extVars, incVars, envVars, wal, slot, snapshot, dest, destLsn, upto, first_run, runs,
                   checked, snapRun, slotGen, loadedGen, firstLo, lastBatch, resetSeen>>

Next ==
    \/ \E r \in Ids : SourceInsert(r)
    \/ \E r \in Ids : SourceDelete(r)
    \/ StartRun
    \/ Preflight
    \/ Decide
    \/ InitReplication
    \/ LoadSnapshot
    \/ StreamOpen
    \/ StreamCommit
    \/ Ack
    \/ StreamDisconnect
    \/ StreamReconnect
    \/ FinishRun
    \/ Crash

\* =================================================== the incremental path
MaxIncRows == 2     \* source row ids of the incremental table are 1..MaxIncRows
MaxTs      == 2     \* tracking timestamps are 1..MaxTs
MaxIncRuns == 3     \* incremental runs

\* LIMIT 2000000 of _stream_table, scaled to the size of the modelled table.
QueryLimit == 1

IncIds == 1..MaxIncRows

\* TABLE_TO_FIELD_MAPPING = {**TRAVEL_MAPPING, **DASHBOARD_MAPPING}, the
\* entries of the tables modelled here; .get(pg_table, "id").
TABLE_TO_FIELD_MAPPING(t) ==
    CASE t = "users_appuser"     -> "updated_at"
      [] t = "users_conversions" -> "updated_at"
      [] t = "users_deviceuser"  -> "id"
      [] t = "users_usersession" -> "id"
      [] OTHER                   -> "id"

\* DESTINATION of pipelines/pg/travel/log_table.py.
DESTINATION == "inline_ad_logs"

\* Python values that end up as the query's watermark parameter: None, a
\* scalar read from the warehouse, or the (column, value) tuple.
PyNone == [kind |-> "none", col |-> "", val |-> 0]
PyScalar(v) == [kind |-> "scalar", col |-> "", val |-> v]
PyTuple(c, v) == [kind |-> "tuple", col |-> c, val |-> v.val]

\* The second element of a (column, value) tuple; the values read from the
\* warehouse are ids and timestamps from 1 up, 0 stands for None.
Second(x) == IF x.val = 0 THEN PyNone ELSE PyScalar(x.val)

\* bool(x): None and 0 are false, a non-empty tuple is true.
Truthy(x) ==
    CASE x.kind = "none"   -> FALSE
      [] x.kind = "scalar" -> x.val # 0
      [] x.kind = "tuple"  -> TRUE

TrackVal(col, r) == IF col = "id" THEN r.id ELSE r.ts

SrcRowsInc == {[id |-> i, ts |-> srcTab[i]] : i \in {j \in IncIds : srcTab[j] # 0}}

\* SELECT MAX(column) FROM the destination table; over a table without rows
\* the aggregate is the column type's default, written 0.
MaxOf(col, rows) == IF rows = {} THEN 0 ELSE Max({TrackVal(col, r) : r \in rows})

\* db_utils._get_last_for_column: the existence query runs outside the try;
\* the MAX query is guarded, its failure is logged and None is returned after
\* ch_client.close().
get_last_for_column(col, existsFails, maxFails) ==
    IF existsFails
    THEN [raised |-> TRUE, value |-> PyNone, logged |-> FALSE, closed |-> FALSE]
    ELSE IF chExists
         THEN IF maxFails
              THEN [raised |-> FALSE, value |-> PyNone, logged |-> TRUE, closed |-> TRUE]
              ELSE [raised |-> FALSE, value |-> PyScalar(MaxOf(col, chRows)),
                    logged |-> FALSE, closed |-> FALSE]
         ELSE [raised |-> FALSE, value |-> PyNone, logged |-> FALSE, closed |-> TRUE]

\* common_tables.stream_table does the same lookup inline on created_at:
\* `except Exception: pass`, and the client is never closed.
stream_table_last(existsFails, maxFails) ==
    IF existsFails
    THEN [raised |-> TRUE, value |-> PyNone, logged |-> FALSE, closed |-> FALSE]
    ELSE IF chExists /\ ~maxFails
         THEN [raised |-> FALSE, value |-> PyScalar(MaxOf("created_at", chRows)),
               logged |-> FALSE, closed |-> FALSE]
         ELSE [raised |-> FALSE, value |-> PyNone, logged |-> FALSE, closed |-> FALSE]

\* db_utils.get_last_record_info: (column_name, last value).
get_last_record_info(t, existsFails, maxFails) ==
    LET col == TABLE_TO_FIELD_MAPPING(t)
        res == get_last_for_column(col, existsFails, maxFails)
    IN  [res EXCEPT !.value = PyTuple(col, res.value)]

\* What each resource keeps of the lookup: _stream_table unpacks the tuple,
\* travel inline_ads keeps the tuple whole as last_created_at.
Lookup(path, t, existsFails, maxFails) ==
    CASE path = "_stream_table" ->
            LET r == get_last_record_info(t, existsFails, maxFails)
            IN  [r EXCEPT !.value = Second(r.value)]
      [] path = "inline_ads" -> get_last_record_info(DESTINATION, existsFails, maxFails)
      [] OTHER -> stream_table_last(existsFails, maxFails)

NoCall == [existsFails |-> FALSE, maxFails |-> FALSE, existed |-> FALSE,
           raised |-> FALSE, logged |-> FALSE, closed |-> TRUE]

NoQuery == [where |-> FALSE, whereCol |-> "", param |-> PyNone, order |-> "", limit |-> 0]

\* The SQL each resource builds. limit 0 stands for no LIMIT clause.
BuildSql(path, t, last) ==
    CASE path = "_stream_table" ->
            LET column_name == TABLE_TO_FIELD_MAPPING(t)
                filtered == column_name # "" /\ Truthy(last)
            IN  [where |-> filtered,
                 whereCol |-> IF filtered THEN column_name ELSE "",
                 param |-> IF filtered THEN last ELSE PyNone,
                 order |-> column_name, limit |-> QueryLimit]
      [] path = "inline_ads" ->
            [where |-> Truthy(last),
             whereCol |-> IF Truthy(last) THEN "created_at" ELSE "",
             param |-> IF Truthy(last) THEN last ELSE PyNone,
             order |-> "", limit |-> 0]
      [] OTHER ->
            [where |-> Truthy(last),
             whereCol |-> IF Truthy(last) THEN "created_at" ELSE "",
             param |-> IF Truthy(last) THEN last ELSE PyNone,
             order |-> "", limit |-> 0]

\* Rows the query matches.
Matching(query) ==
    {r \in SrcRowsInc : ~query.where \/ TrackVal(query.whereCol, r) > query.param.val}

\* The result sets the source may return: every matching row, or with a
\* LIMIT the first rows in ORDER BY order, ties in any order.
ResultSets(query) ==
    LET m == Matching(query)
    IN  IF query.limit = 0 \/ Cardinality(m) <= query.limit THEN {m}
        ELSE {S \in SUBSET m :
                /\ Cardinality(S) = query.limit
                /\ \A a \in S, b \in m \ S :
                      TrackVal(query.order, a) <= TrackVal(query.order, b)}

IncDisposition_Replace == "replace"

\* write_disposition="merge", merge_key="id", primary_key="id" of the three
\* incremental resources.
IncDisposition == "merge"

WriteRows_Overwrite(disp, d, rows) == rows

WriteRows(disp, d, rows) ==
    CASE disp = "merge"   -> {r \in d : \A n \in rows : n.id # r.id} \cup rows
      [] disp = "append"  -> d \cup rows
      [] disp = "replace" -> rows

\* Nothing loaded, no run made yet.
IncZero ==
    /\ srcTab = [i \in IncIds |-> 0]
    /\ chExists = FALSE
    /\ chRows = {}
    /\ wm = PyNone
    /\ wmCall = NoCall
    /\ q = NoQuery
    /\ incPc = "idle"
    /\ incRuns = 0
    /\ fetched = 0
    /\ before = {}
    /\ quiet = FALSE
    /\ prevCut = FALSE
    /\ wroteSince = FALSE
    /\ wmHigh = 0
    /\ wmSince = 0
    /\ clRun = 0

IncInit ==
    /\ incPath \in {"_stream_table", "inline_ads", "stream_table"}
    /\ incTable \in {"users_appuser", "users_deviceuser", DESTINATION}
    /\ incPath = "inline_ads" <=> incTable = DESTINATION
    /\ incPath = "stream_table" => incTable = "users_appuser"
    /\ IncZero

\* The incremental path at rest, for the behaviours of the CDC orchestrator.
IncIdle ==
    /\ incPath = "_stream_table"
    /\ incTable = "users_appuser"
    /\ IncZero

\* The CDC orchestrator at rest, for the behaviours of the incremental path.
CdcIdle ==
    /\ target = "main"
    /\ walLevel = "logical"
    /\ role = "replication"
    /\ replicaFull = FALSE
    /\ wal = <<>>
    /\ slot = NoSlot
    /\ snapshot = {}
    /\ dest = [r \in Ids |-> 0]
    /\ destLsn = 0
    /\ upto = 0
    /\ first_run = TRUE
    /\ pc = "idle"
    /\ runs = 0
    /\ checked = FALSE
    /\ snapRun = FALSE
    /\ slotGen = 0
    /\ loadedGen = 0
    /\ firstLo = -1
    /\ lastBatch = NoBatch
    /\ resetSeen = TRUE

\* A source transaction writes a row; the tracking timestamp does not go
\* back below the ones already written.
SrcTsFloor == Max({srcTab[i] : i \in IncIds} \cup {1})

SrcWrite(i, t) ==
    /\ t >= SrcTsFloor
    /\ srcTab[i] # t
    /\ srcTab' = [srcTab EXCEPT ![i] = t]
    /\ wroteSince' = TRUE
    /\ UNCHANGED <<extVars, cdcVars, incPath, incTable, chExists, chRows, wm, wmCall, q, incPc,
                   incRuns, fetched, before, quiet, prevCut, wmHigh, wmSince, clRun>>

\* pipe.run(streams) / pipe.run(inline_ads()) is entered.
IncStart ==
    /\ incPc \in {"idle", "done", "failed"}
    /\ incRuns < MaxIncRuns
    /\ incRuns' = incRuns + 1
    /\ incPc' = "lookup"
    /\ quiet' = (incPc = "done")
    /\ wm' = PyNone
    /\ wmCall' = NoCall
    /\ q' = NoQuery
    /\ before' = {}
    /\ UNCHANGED <<extVars, cdcVars, incPath, incTable, srcTab, chExists, chRows,
                   fetched, prevCut, wroteSince, wmHigh, wmSince, clRun>>

\* The lookup read MAX(column) from the existing destination table.
Computed(r) == chExists /\ ~r.raised /\ r.value.kind # "none" /\ (r.value.kind = "tuple" => r.value.val # 0)

\* The resource asks the warehouse for its last value; each of the two
\* warehouse queries may fail.
IncLookup ==
    /\ incPc = "lookup"
    /\ \E existsFails, maxFails \in BOOLEAN :
          LET r == Lookup(incPath, incTable, existsFails, maxFails)
          IN  /\ wmCall' = [existsFails |-> existsFails, maxFails |-> maxFails,
                            existed |-> chExists, raised |-> r.raised,
                            logged |-> r.logged, closed |-> r.closed]
              /\ wm' = r.value
              /\ wmHigh' = IF Computed(r) THEN Max({wmHigh, r.value.val}) ELSE wmHigh
              /\ wmSince' = IF Computed(r) THEN Max({wmSince, r.value.val}) ELSE wmSince
              /\ incPc' = IF r.raised THEN "failed" ELSE "build"
    /\ UNCHANGED <<extVars, cdcVars, incPath, incTable, srcTab, chExists, chRows, q, incRuns,
                   fetched, before, quiet, prevCut, wroteSince, clRun>>

\* The resource builds its SELECT.
IncBuild ==
    /\ incPc = "build"
    /\ q' = BuildSql(incPath, incTable, wm)
    /\ incPc' = "fetch"
    /\ UNCHANGED <<extVars, cdcVars, incPath, incTable, srcTab, chExists, chRows, wm, wmCall,
                   incRuns, fetched, before, quiet, prevCut, wroteSince, wmHigh, wmSince, clRun>>

\* fetch_batched executes the query, and the rows are loaded with the
\* resource's write disposition. A tuple bound to `created_at > %s` is a row
\* value the source cannot compare with a timestamp: the query fails.
IncFetchLoad ==
    /\ incPc = "fetch"
    /\ IF q.param.kind = "tuple"
       THEN /\ incPc' = "failed"
            /\ UNCHANGED <<chExists, chRows, fetched, before, quiet, prevCut, wroteSince>>
       ELSE \E S \in ResultSets(q) :
            /\ chRows' = WriteRows(IncDisposition, chRows, S)
            /\ chExists' = (chExists \/ S # {})
            /\ fetched' = Cardinality(S)
            /\ before' = chRows
            /\ quiet' = (quiet /\ ~wroteSince)
            /\ prevCut' = (q.limit # 0 /\ fetched = q.limit)
            /\ wroteSince' = FALSE
            /\ incPc' = "done"
    /\ UNCHANGED <<extVars, cdcVars, incPath, incTable, srcTab, wm, wmCall, q, incRuns,
                   wmHigh, wmSince, clRun>>

\* The process dies during an incremental run.
IncCrash ==
    /\ incPc \in {"lookup", "build", "fetch"}
    /\ incPc' = "idle"
    /\ UNCHANGED <<extVars, cdcVars, incPath, incTable, srcTab, chExists, chRows, wm, wmCall, q,
                   incRuns, fetched, before, quiet, prevCut, wroteSince, wmHigh, wmSince, clRun>>

NextInc ==
    \/ \E i \in IncIds, t \in 1..MaxTs : SrcWrite(i, t)
    \/ IncStart
    \/ IncLookup
    \/ IncBuild
    \/ IncFetchLoad
    \/ IncCrash

\* ------------------------------------------------- the post-load cleanup
\* The two warehouse tables run_clickhouse_post_dlt_cleanup deletes from that
\* _stream_table loads: travel___users_conversions, travel___users_usersession.
CleanupTables == {"users_conversions", "users_usersession"}

\* `delete from T where updated_at >= (select min(updated_at) ...)` and
\* `delete from T where id >= (select min(session_id) ...)`: the rows from
\* the threshold up, on the table's tracking column. Threshold 0 stands for a
\* subquery without rows (NULL): nothing compares >= NULL.
CleanupDeletes(t, rows, th) ==
    IF th = 0 THEN {}
    ELSE {r \in rows : TrackVal(TABLE_TO_FIELD_MAPPING(t), r) >= th}

\* pipelines/pg/__init__.py run(): run_clickhouse_post_dlt_cleanup() follows
\* the load of the travel tables, once per run.
Cleanup(th) ==
    /\ incPc = "done"
    /\ incPath = "_stream_table"
    /\ incTable \in CleanupTables
    /\ clRun # incRuns
    /\ clRun' = incRuns
    /\ chRows' = chRows \ CleanupDeletes(incTable, chRows, th)
    /\ wmSince' = IF CleanupDeletes(incTable, chRows, th) # {} THEN 0 ELSE wmSince
    /\ UNCHANGED <<extVars, cdcVars, incPath, incTable, srcTab, chExists, wm, wmCall, q, incPc,
                   incRuns, fetched, before, quiet, prevCut, wroteSince, wmHigh>>

NextClean ==
    \/ NextInc
    \/ \E th \in {0} \cup {TrackVal(TABLE_TO_FIELD_MAPPING(incTable), r) : r \in chRows} : Cleanup(th)

\* ============================================ main.py and pg.run()
MaxJobs == 2        \* scheduled runs of safe_pg_pipeline

PgSteps_CleanupBeforeLoad == <<"pre_travel", "log", "cleanup", "travel", "pre_dash", "dash">>

\* pipelines/pg/__init__.py run(): the calls in statement order.
PgSteps == <<"pre_travel", "log", "travel", "cleanup", "pre_dash", "dash">>

\* How a sub-step can end. preflight raises SystemExit from its checks and
\* any other exception from its connections; a load raises what
\* fetch_batched raised (connection or query error) or what the warehouse
\* load raised; the cleanup raises what client.command raised.
StepOutcomes(step) ==
    CASE step \in {"pre_travel", "pre_dash"} -> {"ok", "SystemExit", "connect_error"}
      [] step \in {"log", "travel", "dash"}   -> {"ok", "fetch_error", "load_error"}
      [] OTHER -> IF skipCleanup THEN {"ok"} ELSE {"ok", "command_error"}

\* SystemExit derives from BaseException, every other failure from Exception.
ExcOf(outcome) == IF outcome = "SystemExit" THEN "SystemExit" ELSE "Exception"

\* safe_pg_pipeline: `except Exception:`.
CaughtBySafe(e) == e = "Exception"

\* The one-shot branch of main.py ends after safe_pg_pipeline() returned:
\* the interpreter exits with status 0.
ExitAfterCaught == 0

\* A SystemExit carrying a message leaves the interpreter with status 1.
ExitOnSystemExit == 1

OrchIdle ==
    /\ omode = "oneshot"
    /\ skipCleanup = FALSE
    /\ opc = "off"
    /\ oexc = "none"
    /\ ofailed = ""
    /\ ocause = ""
    /\ oexit = -1
    /\ olog = FALSE
    /\ ojobs = 0
    /\ osteps = <<>>
    /\ oclOpened = 0
    /\ oclStmts = 0
    /\ ochLeft = 0

OrchInit ==
    /\ omode \in {"oneshot", "schedule"}
    /\ skipCleanup \in BOOLEAN
    /\ opc = "main"
    /\ oexc = "none"
    /\ ofailed = ""
    /\ ocause = ""
    /\ oexit = -1
    /\ olog = FALSE
    /\ ojobs = 0
    /\ osteps = <<>>
    /\ oclOpened = 0
    /\ oclStmts = 0
    /\ ochLeft = 0

orchFrame == <<cdcVars, incVars, fbVars, replVars, xfVars, pVars>>

\* main.py __main__: "schedule" enters run(), anything else calls
\* safe_pg_pipeline() once.
OrchMain ==
    /\ opc = "main"
    /\ opc' = IF omode = "schedule" THEN "loop" ELSE "job"
    /\ UNCHANGED <<orchFrame, oclOpened, oclStmts, ochLeft, omode, skipCleanup, oexc, ofailed, ocause, oexit, olog, ojobs, osteps>>

\* run(): schedule.run_pending() finds the hourly job due.
OrchLoopTick ==
    /\ opc = "loop"
    /\ ojobs < MaxJobs
    /\ opc' = "job"
    /\ UNCHANGED <<orchFrame, oclOpened, oclStmts, ochLeft, omode, skipCleanup, oexc, ofailed, ocause, oexit, olog, ojobs, osteps>>

\* safe_pg_pipeline(): try: pg.run()
OrchJobStart ==
    /\ opc = "job"
    /\ ojobs' = ojobs + 1
    /\ osteps' = <<>>
    /\ ofailed' = ""
    /\ ocause' = ""
    /\ olog' = FALSE
    /\ opc' = PgSteps[1]
    /\ oclOpened' = 0
    /\ oclStmts' = 0
    /\ UNCHANGED <<orchFrame, omode, skipCleanup, oexc, oexit, ochLeft>>

\* The statements of cleanup_statements.
CleanupStatements == 4

\* What a sub-step that ended with the given outcome did to the ClickHouse
\* clients: connections and statements of the cleanup, and clients left open.
\*   preflight: _check_pg raises before _check_clickhouse opens its client;
\*     _check_clickhouse closes the client in its last statement only, a
\*     raise before it leaves the client open.
\*   loads: _get_last_for_column returns the MAX it read without closing the
\*     client; it closes it when the table is absent or the MAX query failed.
\*   cleanup: returns at once when SKIP_CH_CLEANUP is set; otherwise opens a
\*     client, runs the statements in order inside try, closes in finally.
StepEffects(step, outcome) ==
    CASE step \in {"pre_travel", "pre_dash"} ->
            IF outcome = "ok" THEN {[opened |-> 0, stmts |-> 0, left |-> 0]}
            ELSE {[opened |-> 0, stmts |-> 0, left |-> n] : n \in {0, 1}}
      [] step \in {"log", "travel", "dash"} ->
            {[opened |-> 0, stmts |-> 0, left |-> n] : n \in {0, 1}}
      [] OTHER ->
            IF skipCleanup THEN {[opened |-> 0, stmts |-> 0, left |-> 0]}
            ELSE IF outcome = "ok"
            THEN {[opened |-> 1, stmts |-> CleanupStatements, left |-> 0]}
            ELSE {[opened |-> 0, stmts |-> 0, left |-> 0]}
                    \cup {[opened |-> 1, stmts |-> k, left |-> 0] :
                             k \in 0..(CleanupStatements - 1)}

\* One call of pg.run(): it returns and the next statement runs, or it
\* raises and pg.run() is left.
RunStep(i) ==
    /\ opc = PgSteps[i]
    /\ \E outcome \in StepOutcomes(PgSteps[i]) :
          /\ \E eff \in StepEffects(PgSteps[i], outcome) :
                /\ oclOpened' = oclOpened + eff.opened
                /\ oclStmts' = oclStmts + eff.stmts
                /\ ochLeft' = ochLeft + eff.left
          /\ IF outcome = "ok"
             THEN /\ osteps' = Append(osteps, PgSteps[i])
                  /\ opc' = IF i < Len(PgSteps) THEN PgSteps[i + 1] ELSE "returned"
                  /\ UNCHANGED <<oexc, ofailed, ocause>>
             ELSE /\ ofailed' = PgSteps[i]
                  /\ ocause' = outcome
                  /\ oexc' = ExcOf(outcome)
                  /\ opc' = "raised"
                  /\ UNCHANGED osteps
    /\ UNCHANGED <<orchFrame, omode, skipCleanup, oexit, olog, ojobs>>

PgPreflightTravel == RunStep(1)

PgLogLoad == RunStep(2)

PgTravelLoad == RunStep(3)

PgCleanup == RunStep(4)

PgPreflightDashboard == RunStep(5)

PgDashboardLoad == RunStep(6)

\* except Exception: logging.exception(...)
OrchExcept ==
    /\ opc = "raised"
    /\ CaughtBySafe(oexc)
    /\ olog' = TRUE
    /\ oexc' = "none"
    /\ opc' = "returned"
    /\ UNCHANGED <<orchFrame, oclOpened, oclStmts, ochLeft, omode, skipCleanup, ofailed, ocause, oexit, ojobs, osteps>>

\* An exception safe_pg_pipeline does not catch leaves run() and __main__:
\* the process ends.
OrchPropagate ==
    /\ opc = "raised"
    /\ ~CaughtBySafe(oexc)
    /\ oexit' = ExitOnSystemExit
    /\ opc' = "exited"
    /\ UNCHANGED <<orchFrame, oclOpened, oclStmts, ochLeft, omode, skipCleanup, oexc, ofailed, ocause, olog, ojobs, osteps>>

\* safe_pg_pipeline() returned: the one-shot process ends, the scheduling
\* loop goes on.
OrchReturn ==
    /\ opc = "returned"
    /\ IF omode = "oneshot"
       THEN oexit' = ExitAfterCaught /\ opc' = "exited"
       ELSE oexit' = oexit /\ opc' = "loop"
    /\ UNCHANGED <<orchFrame, oclOpened, oclStmts, ochLeft, omode, skipCleanup, oexc, ofailed, ocause, olog, ojobs, osteps>>

NextOrch ==
    \/ OrchMain
    \/ OrchLoopTick
    \/ OrchJobStart
    \/ PgPreflightTravel
    \/ PgLogLoad
    \/ PgTravelLoad
    \/ PgCleanup
    \/ PgPreflightDashboard
    \/ PgDashboardLoad
    \/ OrchExcept
    \/ OrchPropagate
    \/ OrchReturn

\* ================================================ db_utils.fetch_batched
MaxN   == 5         \* rows of a result set
MaxB   == 2         \* batch_size
MaxInv == 2         \* invocations of the generator

CeilDiv(n, b) == (n + b - 1) \div b

Min(a, b) == IF a <= b THEN a ELSE b

\* cur.fetchmany(batch_size): the next rows of the result set, at most
\* batch_size of them, none once the set is exhausted.
FetchSize(b, remaining) == Min(b, remaining)

StopsOn_Short(len, b) == len < b

\* `if not batch: break`
StopsOn(len, b) == len = 0

CursorStart_Resume == fbPos

\* cur.execute(query, params) on a new cursor of a new connection: the
\* cursor stands before the first row of its result set.
CursorStart == 0

FbIdle ==
    /\ fbN = 0 /\ fbB = 1 /\ fbPc = "idle" /\ fbPos = 0
    /\ fbBatch = [lo |-> 1, hi |-> 0]
    /\ fbOut = <<>> /\ fbSizes = <<>> /\ fbLast = 0
    /\ fbFetches = 0 /\ fbExecs = 0 /\ fbConns = 0 /\ fbInv = 0
    /\ fbErr = "none"

fbFrame == <<cdcVars, incVars, orchVars, replVars, xfVars, pVars>>

\* fetch_batched(source_name, query, params, batch_size) is called and its
\* generator is started; the query and its parameters decide the result set.
FbCall(n, b) ==
    /\ fbPc \in {"idle", "closed", "failed"}
    /\ fbInv < MaxInv
    /\ fbInv' = fbInv + 1
    /\ fbN' = n
    /\ fbB' = b
    /\ fbOut' = <<>>
    /\ fbSizes' = <<>>
    /\ fbLast' = 0
    /\ fbFetches' = 0
    /\ fbExecs' = 0
    /\ fbErr' = "none"
    /\ fbBatch' = [lo |-> 1, hi |-> 0]
    /\ fbPc' = "connect"
    /\ UNCHANGED <<fbFrame, fbPos, fbConns>>

\* with get_pg_connection(source_name) as conn
FbConnect ==
    /\ fbPc = "connect"
    /\ \E ok \in BOOLEAN :
          IF ok
          THEN fbConns' = fbConns + 1 /\ fbPc' = "execute" /\ fbErr' = fbErr
          ELSE fbConns' = fbConns /\ fbPc' = "failed" /\ fbErr' = "connect"
    /\ UNCHANGED <<fbFrame, fbN, fbB, fbPos, fbBatch, fbOut, fbSizes, fbLast, fbFetches,
                   fbExecs, fbInv>>

\* cur.execute(query, params)
FbExecute ==
    /\ fbPc = "execute"
    /\ fbExecs' = fbExecs + 1
    /\ \E ok \in BOOLEAN :
          IF ok
          THEN fbPos' = CursorStart /\ fbPc' = "fetch" /\ fbErr' = fbErr
          ELSE fbPos' = fbPos /\ fbPc' = "failed" /\ fbErr' = "query"
    /\ UNCHANGED <<fbFrame, fbN, fbB, fbBatch, fbOut, fbSizes, fbLast, fbFetches,
                   fbConns, fbInv>>

\* batch = cur.fetchmany(batch_size); if not batch: break
FbFetchmany ==
    /\ fbPc = "fetch"
    /\ fbFetches' = fbFetches + 1
    /\ \E ok \in BOOLEAN :
          IF ok
          THEN LET len == FetchSize(fbB, IF fbPos < fbN THEN fbN - fbPos ELSE 0)
               IN  /\ fbLast' = len
                   /\ fbPos' = fbPos + len
                   /\ fbErr' = fbErr
                   /\ IF StopsOn(len, fbB)
                      THEN /\ fbPc' = "closed"
                           /\ UNCHANGED <<fbBatch, fbSizes>>
                      ELSE /\ fbPc' = "yield"
                           /\ fbBatch' = [lo |-> fbPos + 1, hi |-> fbPos + len]
                           /\ fbSizes' = Append(fbSizes, len)
          ELSE /\ fbPc' = "failed"
               /\ fbErr' = "fetch"
               /\ UNCHANGED <<fbLast, fbPos, fbBatch, fbSizes>>
    /\ UNCHANGED <<fbFrame, fbN, fbB, fbOut, fbExecs, fbConns, fbInv>>

\* for row in batch: yield row
FbYield ==
    /\ fbPc = "yield"
    /\ fbOut' = Append(fbOut, fbBatch.lo)
    /\ fbBatch' = [fbBatch EXCEPT !.lo = @ + 1]
    /\ fbPc' = IF fbBatch.lo < fbBatch.hi THEN "yield" ELSE "fetch"
    /\ UNCHANGED <<fbFrame, fbN, fbB, fbPos, fbSizes, fbLast, fbFetches, fbExecs,
                   fbConns, fbInv, fbErr>>

NextFetch ==
    \/ \E n \in 0..MaxN, b \in 1..MaxB : FbCall(n, b)
    \/ FbConnect
    \/ FbExecute
    \/ FbFetchmany
    \/ FbYield


\* ============================== concurrent runs, slots and publications
\* Several invocations of pg_replication_pipeline.py and of
\* pipelines/pg/log_table.py against one source. Whether a slot's stream can
\* be opened twice is decided by the source (specification 5).
MaxProcs  == 2        \* processes that can be alive at once
MaxStarts == 2        \* runs started in all
MaxEdits  == 1        \* edits of a configured table list

Procs == 1..MaxProcs

Entries == {"main", "log_table"}

Tables == {"t1", "t2"}

NoPub == {"<none>"}

SLOT == "analytics_slot"

PUB == "analytics_pub"

SLOT_INLINE_ADS == "slot_inline_ads"

SLOT_AD_FETCH_Shared == "slot_inline_ads"

SLOT_AD_FETCH == "slot_ad_fetch"

\* The (slot, publication) pairs an entry point snapshots and streams, in the
\* order of its calls: main() has one, log_table.run() has the two behind
\* inline_ads and inline_ads_legacy.
CdcResources(e) ==
    IF e = "main"
    THEN <<[slot |-> SLOT, pub |-> PUB]>>
    ELSE <<[slot |-> SLOT_INLINE_ADS, pub |-> "pub_inline_ads"],
           [slot |-> SLOT_AD_FETCH, pub |-> "pub_ad_fetch"]>>

PubNames == {"analytics_pub", "pub_inline_ads", "pub_ad_fetch"}

\* table_names=SELECTED_TABLES of main(), table_names=[LOG_TABLE] of run().
ConfigValues(e) ==
    IF e = "main" THEN (SUBSET Tables) \ {{}} ELSE {{t} : t \in Tables}

\* The slot a consumer <<p, i>> streams, and the processes consuming a slot.
SlotOfConsumer(c) == CdcResources(rEntry[c[1]])[c[2]].slot

Holders(sl) == {c[1] : c \in {d \in rHeld : SlotOfConsumer(d) = sl}}

SlotsOf(e) == {CdcResources(e)[i].slot : i \in DOMAIN CdcResources(e)}

SlotNames == UNION {SlotsOf(e) : e \in Entries}

\* What the source answers (specification 5): the stream of a slot that does
\* not exist, or that has a consumer, is refused; a slot with a consumer
\* cannot be dropped.
SourceRefusesStream(sl) == sl \notin slotEx \/ Holders(sl) # {}

SourceRefusesDrop(sl) == Holders(sl) # {}

ReplIdle ==
    /\ rEntry = [p \in Procs |-> "none"]
    /\ rPc = [p \in Procs |-> "off"]
    /\ rNext = [p \in Procs |-> 1]
    /\ rHeld = {}
    /\ rRefusedBy = [p \in Procs |-> 0]
    /\ rExit = [p \in Procs |-> -1]
    /\ slotEx = {}
    /\ pubTabs = [n \in PubNames |-> NoPub]
    /\ cfgTabs = [e \in Entries |-> {"t1"}]
    /\ rFirst = [e \in Entries |-> TRUE]
    /\ rStarts = MaxStarts
    /\ rEdits = MaxEdits

ReplInit ==
    /\ rEntry = [p \in Procs |-> "none"]
    /\ rPc = [p \in Procs |-> "off"]
    /\ rNext = [p \in Procs |-> 1]
    /\ rHeld = {}
    /\ rRefusedBy = [p \in Procs |-> 0]
    /\ rExit = [p \in Procs |-> -1]
    /\ slotEx = {}
    /\ pubTabs = [n \in PubNames |-> NoPub]
    /\ cfgTabs \in [Entries -> SUBSET Tables]
    /\ \A e \in Entries : cfgTabs[e] \in ConfigValues(e)
    /\ rFirst = [e \in Entries |-> TRUE]
    /\ rStarts = 0
    /\ rEdits = 0

replFrame == <<cdcVars, incVars, orchVars, fbVars, xfVars, pVars>>

\* The process leaves: the streams it consumed are released.
Released(p) == {c \in rHeld : c[1] # p}

\* python pg_replication_pipeline.py / python -m pipelines.pg.log_table.
\* main() runs preflight() first, which ends the process with SystemExit
\* (exit code 1) when a check fails; run() has none.
ReplStart(p, e) ==
    /\ rPc[p] \in {"off", "done", "failed"}
    /\ rStarts < MaxStarts
    /\ rStarts' = rStarts + 1
    /\ rEntry' = [rEntry EXCEPT ![p] = e]
    /\ rNext' = [rNext EXCEPT ![p] = 1]
    /\ rRefusedBy' = [rRefusedBy EXCEPT ![p] = 0]
    /\ \E ok \in BOOLEAN :
          IF e = "main" /\ ~ok
          THEN rPc' = [rPc EXCEPT ![p] = "failed"] /\ rExit' = [rExit EXCEPT ![p] = 1]
          ELSE rPc' = [rPc EXCEPT ![p] = "decide"] /\ rExit' = [rExit EXCEPT ![p] = -1]
    /\ UNCHANGED <<rHeld, slotEx, pubTabs, cfgTabs, rFirst, rEdits, replFrame>>

\* `if pipe.first_run:`
ReplDecide(p) ==
    /\ rPc[p] = "decide"
    /\ rPc' = [rPc EXCEPT ![p] = IF rFirst[rEntry[p]] THEN "init" ELSE "open"]
    /\ UNCHANGED <<rEntry, rNext, rHeld, rRefusedBy, rExit, slotEx, pubTabs, cfgTabs, rFirst,
                   rStarts, rEdits, replFrame>>

\* init_replication(slot_name, pub_name, table_names, reset=True) for each
\* resource of the entry point: the slot and the publication of that name
\* are dropped and created again, the publication scoped to table_names
\* (specification 4.3). A slot whose stream is being consumed cannot be
\* dropped: the call fails and the process ends with exit code 2.
ReplInitReplication(p) ==
    /\ rPc[p] = "init"
    /\ LET e == rEntry[p]
           res == CdcResources(e)
       IN  IF \E i \in DOMAIN res : SourceRefusesDrop(res[i].slot)
           THEN /\ rPc' = [rPc EXCEPT ![p] = "failed"]
                /\ rExit' = [rExit EXCEPT ![p] = 2]
                /\ UNCHANGED <<slotEx, pubTabs>>
           ELSE /\ slotEx' = slotEx \cup SlotsOf(e)
                /\ pubTabs' = [n \in PubNames |->
                                 IF \E i \in DOMAIN res : res[i].pub = n
                                 THEN cfgTabs[e] ELSE pubTabs[n]]
                /\ rPc' = [rPc EXCEPT ![p] = "snapload"]
                /\ UNCHANGED rExit
    /\ UNCHANGED <<rEntry, rNext, rHeld, rRefusedBy, cfgTabs, rFirst, rStarts, rEdits, replFrame>>

\* pipe.run(snapshot): a completed load ends the pipeline's first_run.
ReplLoadSnapshot(p) ==
    /\ rPc[p] = "snapload"
    /\ rFirst' = [rFirst EXCEPT ![rEntry[p]] = FALSE]
    /\ rPc' = [rPc EXCEPT ![p] = "open"]
    /\ UNCHANGED <<rEntry, rNext, rHeld, rRefusedBy, rExit, slotEx, pubTabs, cfgTabs, rStarts,
                   rEdits, replFrame>>

\* pipe.run(replication_resource(SLOT, PUB)) / pipe.run([inline_ads,
\* inline_ads_legacy]): the stream of the next resource is opened with its
\* slot and publication name, nothing else. The source refuses a slot that
\* does not exist or whose stream is being consumed (specification 5); the
\* exception ends the process with exit code 2.
ReplOpen(p) ==
    /\ rPc[p] = "open"
    /\ LET res == CdcResources(rEntry[p])
           sl == res[rNext[p]].slot
       IN  IF SourceRefusesStream(sl)
           THEN /\ rPc' = [rPc EXCEPT ![p] = "failed"]
                /\ rExit' = [rExit EXCEPT ![p] = 2]
                /\ rRefusedBy' = [rRefusedBy EXCEPT ![p] =
                                    IF Holders(sl) # {} THEN CHOOSE h \in Holders(sl) : TRUE
                                    ELSE 0]
                /\ rHeld' = Released(p)
                /\ UNCHANGED rNext
           ELSE /\ rHeld' = rHeld \cup {<<p, rNext[p]>>}
                /\ IF rNext[p] = Len(res)
                   THEN rPc' = [rPc EXCEPT ![p] = "streaming"] /\ UNCHANGED rNext
                   ELSE rNext' = [rNext EXCEPT ![p] = @ + 1] /\ UNCHANGED rPc
                /\ UNCHANGED <<rExit, rRefusedBy>>
    /\ UNCHANGED <<rEntry, slotEx, pubTabs, cfgTabs, rFirst, rStarts, rEdits, replFrame>>

\* logging.info("Run finished"): the process ends with exit code 0.
ReplFinish(p) ==
    /\ rPc[p] = "streaming"
    /\ rPc' = [rPc EXCEPT ![p] = "done"]
    /\ rExit' = [rExit EXCEPT ![p] = 0]
    /\ rHeld' = Released(p)
    /\ UNCHANGED <<rEntry, rNext, rRefusedBy, slotEx, pubTabs, cfgTabs, rFirst, rStarts, rEdits,
                   replFrame>>

\* The process dies; its replication connections go with it.
ReplCrash(p) ==
    /\ rPc[p] \in {"decide", "init", "snapload", "open", "streaming"}
    /\ rPc' = [rPc EXCEPT ![p] = "off"]
    /\ rHeld' = Released(p)
    /\ UNCHANGED <<rEntry, rNext, rRefusedBy, rExit, slotEx, pubTabs, cfgTabs, rFirst, rStarts,
                   rEdits, replFrame>>

\* Between two runs the table list of an entry point is edited
\* (SELECTED_TABLES, LOG_TABLE of the constants module).
ReplEditConfig(e, ts) ==
    /\ rEdits < MaxEdits
    /\ \A p \in Procs : rEntry[p] = e => rPc[p] \in {"off", "done", "failed"}
    /\ ts \in ConfigValues(e)
    /\ ts # cfgTabs[e]
    /\ cfgTabs' = [cfgTabs EXCEPT ![e] = ts]
    /\ rEdits' = rEdits + 1
    /\ UNCHANGED <<rEntry, rPc, rNext, rHeld, rRefusedBy, rExit, slotEx, pubTabs, rFirst,
                   rStarts, replFrame>>

NextRepl ==
    \/ \E p \in Procs, e \in Entries : ReplStart(p, e)
    \/ \E p \in Procs : ReplDecide(p)
    \/ \E p \in Procs : ReplInitReplication(p)
    \/ \E p \in Procs : ReplLoadSnapshot(p)
    \/ \E p \in Procs : ReplOpen(p)
    \/ \E p \in Procs : ReplFinish(p)
    \/ \E p \in Procs : ReplCrash(p)
    \/ \E e \in Entries, ts \in SUBSET Tables : ReplEditConfig(e, ts)


\* ============================================ the inline-ad transformers
\* travel/log_table.py:inline_ads, and inline_ads / inline_ads_legacy of
\* pipelines/pg/log_table.py. A row name is the sequence of its characters.
MaxBatch == 2        \* rows of a batch
MaxItems == 2        \* nested ad items of a row

Variants == {"travel.inline_ads", "log_table.inline_ads", "log_table.inline_ads_legacy"}

N_car == <<"I", "n", "l", "i", "n", "e", "A", "d", "s", "V", "i", "e", "w", "S", "e", "t", ".", "c", "a", "r">>

N_flight == <<"I", "n", "l", "i", "n", "e", "A", "d", "s", "V", "i", "e", "w", "S", "e", "t", ".", "f", "l", "i", "g", "h", "t">>

N_hotel == <<"I", "n", "l", "i", "n", "e", "A", "d", "s", "V", "i", "e", "w", "S", "e", "t", ".", "h", "o", "t", "e", "l">>

N_ad_fetch == <<"a", "d", "_", "f", "e", "t", "c", "h">>

N_widget == <<"U", "n", "k", "n", "o", "w", "n", "T", "y", "p", "e", ".", "w", "i", "d", "g", "e", "t">>

N_car_hotel == <<"c", "a", "r", "_", "h", "o", "t", "e", "l">>

\* row["name"] is None: a change event that carries the key columns only.
NoName == <<"None">>

\* ad_types of travel/log_table.py: the names its query selects.
AdTypes == {N_car, N_flight, N_hotel, N_ad_fetch}

\* The names a transformer can be handed: the travel resource reads the rows
\* its query selected, the two CDC transformers every row of the log table.
NamesOf(v) ==
    IF v = "travel.inline_ads" THEN AdTypes
    ELSE AdTypes \cup {N_widget, N_car_hotel, NoName}

\* str.endswith
EndsWith(name, suffix) ==
    /\ Len(name) >= Len(suffix)
    /\ SubSeq(name, Len(name) - Len(suffix) + 1, Len(name)) = suffix

S_car == <<"c", "a", "r">>

S_flight == <<"f", "l", "i", "g", "h", "t">>

S_hotel == <<"h", "o", "t", "e", "l">>

S_ad_fetch == <<"a", "d", "_", "f", "e", "t", "c", "h">>

\* The if/elif chain of travel/log_table.py:inline_ads.
DispatchTravel(name) ==
    IF name = NoName THEN "raised"
    ELSE IF EndsWith(name, S_car) THEN "car_ads"
    ELSE IF EndsWith(name, S_flight) THEN "flight_ads"
    ELSE IF EndsWith(name, S_hotel) THEN "hotel_ads"
    ELSE IF EndsWith(name, S_ad_fetch) THEN "legacy_inline_ad"
    ELSE "skipped"

DispatchInlineAds_NoElse(name) ==
    IF name = NoName THEN "raised"
    ELSE IF EndsWith(name, S_car) THEN "car_ads"
    ELSE IF EndsWith(name, S_flight) THEN "flight_ads"
    ELSE "hotel_ads"

\* The if/elif chain of pipelines/pg/log_table.py:inline_ads; None has no
\* endswith.
DispatchInlineAds(name) ==
    IF name = NoName THEN "raised"
    ELSE IF EndsWith(name, S_car) THEN "car_ads"
    ELSE IF EndsWith(name, S_flight) THEN "flight_ads"
    ELSE IF EndsWith(name, S_hotel) THEN "hotel_ads"
    ELSE "skipped"

\* pipelines/pg/log_table.py:inline_ads_legacy has no test at all.
DispatchLegacy(name) == "legacy_inline_ad"

Dispatch(v, name) ==
    IF v = "travel.inline_ads" THEN DispatchTravel(name)
    ELSE IF v = "log_table.inline_ads" THEN DispatchInlineAds(name)
    ELSE DispatchLegacy(name)

XfZero ==
    /\ xPos = 0
    /\ xBy = <<>>
    /\ xWarnings = <<>>
    /\ xYielded = <<>>
    /\ xErr = FALSE

XfIdle ==
    /\ xVariant = "travel.inline_ads"
    /\ xRows = <<>>
    /\ XfZero

XfInit ==
    /\ xVariant \in Variants
    /\ xRows = <<>>
    /\ XfZero

xfFrame == <<cdcVars, incVars, orchVars, fbVars, replVars, pVars>>

\* What `for ad in parser(row): yield ad` can do with a row: yield one
\* record per nested item, or raise (-1); the parsers are modelled below.
ParserOutcomes == (-1)..MaxItems

\* One turn of `for row in ...`: the parser is chosen and its records are
\* yielded, or the name is logged and the row skipped with `continue`. An
\* exception ends the generator.
XfRow ==
    /\ xPos < Len(xRows)
    /\ ~xErr
    /\ LET name == xRows[xPos + 1]
           by == Dispatch(xVariant, name)
       IN  \E out \in ParserOutcomes :
              IF by = "raised" \/ (by # "skipped" /\ out = -1)
              THEN /\ xErr' = TRUE
                   /\ UNCHANGED <<xPos, xBy, xWarnings, xYielded>>
              ELSE /\ out # -1
                   /\ xBy' = Append(xBy, by)
                   /\ xWarnings' = IF by = "skipped" THEN Append(xWarnings, name)
                                   ELSE xWarnings
                   /\ xYielded' = Append(xYielded, IF by = "skipped" THEN 0 ELSE out)
                   /\ xPos' = xPos + 1
                   /\ UNCHANGED xErr
    /\ UNCHANGED <<xVariant, xRows, xfFrame>>

\* The source hands the transformer the next row of the batch.
XfArrive ==
    /\ Len(xRows) < MaxBatch
    /\ \E name \in NamesOf(xVariant) : xRows' = Append(xRows, name)
    /\ UNCHANGED <<xVariant, xPos, xBy, xWarnings, xYielded, xErr, xfFrame>>

NextXf ==
    \/ XfRow
    \/ XfArrive

\* ========================================================= the parsers
\* pipelines/pg/parsers.py and utils.get, applied to one row. Python values
\* are tagged: text is the sequence of its characters.
JNull == [t |-> "null", v |-> <<>>]

JInt(n) == [t |-> "int", v |-> <<n>>]

JStr(cs) == [t |-> "str", v |-> cs]

JFloat(cs) == [t |-> "float", v |-> cs]

JList(es) == [t |-> "list", v |-> es]

JDict(f) == [t |-> "dict", v |-> f]

\* A key of a lookup: text, or a list index.
Key(s) == [s |-> s, i |-> -1]

Idx(i) == [s |-> "", i |-> i]

\* dictionary[key] inside get's try: the value, or NotFound where Python
\* raises KeyError, TypeError or IndexError.
NotFound == [t |-> "notfound", v |-> <<>>]

Subscript(d, k) ==
    IF d.t = "dict"
    THEN IF k.i = -1 /\ k.s \in DOMAIN d.v THEN d.v[k.s] ELSE NotFound
    ELSE IF d.t = "list"
    THEN IF k.i >= 0 /\ k.i < Len(d.v) THEN d.v[k.i + 1] ELSE NotFound
    ELSE IF d.t = "str"
    THEN IF k.i >= 0 /\ k.i < Len(d.v) THEN JStr(<<d.v[k.i + 1]>>) ELSE NotFound
    ELSE NotFound

\* utils.get(dictionary, *keys, default=None)
RECURSIVE get(_, _, _)
get(d, keys, default) ==
    IF keys = <<>> THEN d
    ELSE LET x == Subscript(d, Head(keys))
         IN  IF x.t = "notfound" THEN default ELSE get(x, Tail(keys), default)

\* dict.get(key)
DictGet(d, k) == IF k \in DOMAIN d.v THEN d.v[k] ELSE JNull

RECURSIVE Digits(_)
Digits(n) == IF n < 10 THEN <<ToString(n)>> ELSE Digits(n \div 10) \o <<ToString(n % 10)>>

\* str(x) and the {x} of an f-string
PyStr(x) ==
    IF x.t = "null" THEN <<"N", "o", "n", "e">>
    ELSE IF x.t = "int" THEN Digits(x.v[1])
    ELSE IF x.t \in {"str", "float"} THEN x.v
    ELSE <<"?">>

\* bool(x)
JTruthy(x) ==
    IF x.t = "null" THEN FALSE
    ELSE IF x.t = "int" THEN x.v[1] # 0
    ELSE IF x.t = "dict" THEN DOMAIN x.v # {}
    ELSE x.v # <<>>

\* len(x): -1 where Python raises TypeError
PyLen(x) ==
    IF x.t \in {"list", "str"} THEN Len(x.v)
    ELSE IF x.t = "dict" THEN Cardinality(DOMAIN x.v)
    ELSE -1

\* What `for ad in x` walks over: the elements of a list, the characters of
\* a text, the keys of a dict; NotFound where x is not iterable.
IterOf(x) ==
    IF x.t = "list" THEN x
    ELSE IF x.t = "str" THEN JList([i \in 1..Len(x.v) |-> JStr(<<x.v[i]>>)])
    ELSE IF x.t = "dict" THEN JList([i \in 1..Cardinality(DOMAIN x.v) |-> JStr(<<"k">>)])
    ELSE NotFound

\* parse_inline(ad, row)
parse_inline(ad, row) ==
    [id |-> JStr(PyStr(row.v["id"]) \o <<"-">> \o PyStr(DictGet(ad, "rank"))),
     user_id |-> row.v["related_user_id"],
     rank |-> DictGet(ad, "rank"),
     site |-> DictGet(ad, "site"),
     headline |-> DictGet(ad, "headline"),
     product_type |-> DictGet(ad, "productType"),
     description |-> DictGet(ad, "description"),
     booking_button_text |-> DictGet(ad, "bookingButtonText"),
     cpc_price |-> get(ad, <<Key("cpcEstimate"), Key("price")>>, JNull),
     cpc_currency |-> get(ad, <<Key("cpcEstimate"), Key("currency")>>, JNull)]

\* {**parse_inline(ad, row), ...}
Merge(r, more) == [c \in DOMAIN r \cup DOMAIN more |-> IF c \in DOMAIN more THEN more[c] ELSE r[c]]

\* "origin": str(origin), "destination": str(destination) of inline_ad
OriginText(x) == JStr(PyStr(x))

\* inline_ad(row, origin_date, destination_date, origin, destination,
\* cabin_class, travelers): its item list and what one item yields.
inline_ad(row, origin_date, destination_date, origin, destination, cabin_class, travelers) ==
    [raises |-> FALSE,
     items |-> get(row, <<Key("data"), Key("kwargs"), Key("inlineItems")>>, JList(<<>>)),
     fields |-> [cabin_class |-> cabin_class,
                 travelers |-> travelers,
                 start_date |-> origin_date,
                 end_date |-> destination_date,
                 origin |-> OriginText(origin),
                 destination |-> OriginText(destination),
                 os |-> get(row, <<Key("data"), Key("kwargs"), Key("os")>>, JNull),
                 country |-> get(row, <<Key("data"), Key("kwargs"), Key("country")>>, JNull),
                 created_at |-> row.v["created_at"],
                 version |-> JFloat(<<"2", ".", "0">>)]]

KwParams(row) == get(row, <<Key("data"), Key("kwargs"), Key("params")>>, JNull)

car_ads_Swapped(row) ==
    inline_ad(row,
              get(KwParams(row), <<Key("dropOffDate")>>, JNull),
              get(KwParams(row), <<Key("pickUpDate")>>, JNull),
              get(KwParams(row), <<Key("pickUpLocation"), Key("locationQuery")>>, JNull),
              get(KwParams(row), <<Key("dropOffLocation"), Key("locationQuery")>>, JNull),
              JNull, JNull)

car_ads(row) ==
    inline_ad(row,
              get(KwParams(row), <<Key("pickUpDate")>>, JNull),
              get(KwParams(row), <<Key("dropOffDate")>>, JNull),
              get(KwParams(row), <<Key("pickUpLocation"), Key("locationQuery")>>, JNull),
              get(KwParams(row), <<Key("dropOffLocation"), Key("locationQuery")>>, JNull),
              JNull, JNull)

\* passengers = len(get(params, "passengers", default=[1])) runs when
\* flight_ads is called: a value without a length raises there.
flight_ads(row) ==
    LET params == KwParams(row)
        leg == get(params, <<Key("legs"), Idx(0)>>, JNull)
        n == PyLen(get(params, <<Key("passengers")>>, JList(<<JInt(1)>>)))
        gen == inline_ad(row,
                         get(leg, <<Key("date")>>, JNull),
                         get(leg, <<Key("date")>>, JNull),
                         get(leg, <<Key("originAirport")>>, JNull),
                         get(leg, <<Key("destinationAirport")>>, JNull),
                         get(params, <<Key("cabin")>>, JNull),
                         IF n < 0 THEN JNull ELSE JInt(n))
    IN  [gen EXCEPT !.raises = n < 0]

hotel_ads(row) ==
    LET params == KwParams(row)
    IN  inline_ad(row,
                  get(params, <<Key("checkinDate")>>, JNull),
                  get(params, <<Key("checkoutDate")>>, JNull),
                  get(params, <<Key("cityId")>>, JNull),
                  get(params, <<Key("cityId")>>, JNull),
                  JNull,
                  get(params, <<Key("adults")>>, JNull))

\* legacy_inline_ad(row): everything before its loop runs at the first
\* next(); len(passengers) raises for a value without a length.
legacy_inline_ad(row) ==
    LET params == get(row, <<Key("data"), Key("params")>>, JNull)
        leg == get(params, <<Key("legs"), Idx(0)>>, JNull)
        date0 == get(leg, <<Key("date")>>, JNull)
        origin0 == get(leg, <<Key("originAirport")>>, JNull)
        destination0 == get(leg, <<Key("destinationAirport")>>, JNull)
        origin_date1 == get(params, <<Key("checkinDate")>>, date0)
        destination_date1 == get(params, <<Key("checkoutDate")>>, date0)
        origin1 == get(params, <<Key("cityId")>>, origin0)
        destination1 == get(params, <<Key("cityId")>>, destination0)
        occupants == get(params, <<Key("adults")>>, JNull)
        passengers == get(params, <<Key("passengers")>>, JList(<<JInt(1)>>))
    IN  [raises |-> ~JTruthy(occupants) /\ PyLen(passengers) < 0,
         items |-> get(row, <<Key("data"), Key("response"), Key("inlineItems")>>, JList(<<>>)),
         fields |-> [os |-> get(row, <<Key("data"), Key("OS")>>, JNull),
                     country |-> get(row, <<Key("data"), Key("countryCode")>>, JNull),
                     start_date |-> get(params, <<Key("pickUpDate")>>, origin_date1),
                     end_date |-> get(params, <<Key("dropOffDate")>>, destination_date1),
                     origin |-> get(params, <<Key("pickUpLocation"), Key("locationQuery")>>,
                                    origin1),
                     destination |-> get(params, <<Key("dropOffLocation"),
                                                   Key("locationQuery")>>, destination1),
                     created_at |-> row.v["created_at"],
                     version |-> JFloat(<<"1", ".", "0">>),
                     cabin_class |-> get(params, <<Key("cabinClass")>>, JNull),
                     travelers |-> IF JTruthy(occupants) THEN occupants
                                   ELSE IF PyLen(passengers) < 0 THEN JNull
                                   ELSE JInt(PyLen(passengers))]]

Parsers == {"car_ads", "flight_ads", "hotel_ads", "legacy_inline_ad"}

Apply(parser, row) ==
    IF parser = "car_ads" THEN car_ads(row)
    ELSE IF parser = "flight_ads" THEN flight_ads(row)
    ELSE IF parser = "hotel_ads" THEN hotel_ads(row)
    ELSE legacy_inline_ad(row)

\* ------------------------------------------------------ the rows drawn
D1 == <<"2", "0", "2", "4", "-", "0", "3", "-", "0", "1">>

D2 == <<"2", "0", "2", "4", "-", "0", "3", "-", "0", "5">>

\* Nested ad items: with rank 1 and every field, with rank 2 only, without
\* rank, and one that is not an object.
ItemKinds == {"r1", "r2", "norank", "bare"}

ItemOf(k) ==
    IF k = "r1"
    THEN JDict([rank |-> JInt(1), site |-> JStr(<<"s">>), headline |-> JStr(<<"h">>),
                productType |-> JStr(<<"p">>), description |-> JStr(<<"d">>),
                bookingButtonText |-> JStr(<<"b">>),
                cpcEstimate |-> JDict([price |-> JInt(3), currency |-> JStr(<<"E">>)])])
    ELSE IF k = "r2" THEN JDict([rank |-> JInt(2)])
    ELSE IF k = "norank" THEN JDict([site |-> JStr(<<"s">>)])
    ELSE JInt(3)

RECURSIVE SeqsUpTo(_, _)
SeqsUpTo(S, n) ==
    IF n = 0 THEN {<<>>}
    ELSE SeqsUpTo(S, n - 1) \cup
         {Append(c, x) : c \in {e \in SeqsUpTo(S, n - 1) : Len(e) = n - 1}, x \in S}

\* The inlineItems value: absent, null, a text, or a list of items.
ItemsChoices ==
    {[shape |-> s, kinds |-> <<>>] : s \in {"missing", "null", "text"}}
        \cup {[shape |-> "list", kinds |-> ks] : ks \in SeqsUpTo(ItemKinds, MaxItems)}

ItemsValue(c) == IF c.shape = "list" THEN JList([i \in DOMAIN c.kinds |-> ItemOf(c.kinds[i])])
                 ELSE IF c.shape = "text" THEN JStr(<<"a", "b">>)
                 ELSE JNull

\* The params object of a search of the given kind, fully populated.
ParamsOf(kind) ==
    IF kind = "car"
    THEN [pickUpDate |-> JStr(D1), dropOffDate |-> JStr(D2),
          pickUpLocation |-> JDict([locationQuery |-> JStr(<<"A">>)]),
          dropOffLocation |-> JDict([locationQuery |-> JStr(<<"B">>)])]
    ELSE IF kind = "flight"
    THEN [legs |-> JList(<<JDict([date |-> JStr(D1), originAirport |-> JStr(<<"A">>),
                                  destinationAirport |-> JStr(<<"B">>)])>>),
          cabin |-> JStr(<<"e">>), cabinClass |-> JStr(<<"e">>)]
    ELSE [checkinDate |-> JStr(D1), checkoutDate |-> JStr(D2), cityId |-> JInt(5),
          adults |-> JInt(2)]

Kinds == {"car", "flight", "hotel"}

ParamsShapes == {"missing", "null", "full", "empty"}

PassengerShapes == {"missing", "null", "two"}

WithKey(f, k, val) == [x \in DOMAIN f \cup {k} |-> IF x = k THEN val ELSE f[x]]

ParamsValue(in) ==
    LET base == IF in.params = "full" THEN ParamsOf(in.kind) ELSE [cabin |-> JNull]
        withP == IF in.passengers = "missing" THEN base
                 ELSE WithKey(base, "passengers",
                              IF in.passengers = "null" THEN JNull
                              ELSE JList(<<JInt(1), JInt(1)>>))
    IN  IF in.params = "null" THEN JNull ELSE JDict(withP)

\* The data column: null, or the payload in the layout of the schema
\* (current: data.kwargs.*, legacy: data.params, data.response.inlineItems).
DataValue(in) ==
    LET items == IF in.items.shape = "missing" THEN [os |-> JStr(<<"i">>)]
                 ELSE [os |-> JStr(<<"i">>), inlineItems |-> ItemsValue(in.items)]
        body == IF in.params = "missing" THEN items
                ELSE WithKey(items, "params", ParamsValue(in))
    IN  IF in.data = "null" THEN JNull
        ELSE IF in.parser = "legacy_inline_ad"
        THEN LET base == WithKey([OS |-> JStr(<<"i">>)], "response",
                                 JDict(IF in.items.shape = "missing" THEN [x |-> JNull]
                                       ELSE [inlineItems |-> ItemsValue(in.items)]))
             IN  JDict(IF in.params = "missing" THEN base
                       ELSE WithKey(base, "params", ParamsValue(in)))
        ELSE JDict([kwargs |-> JDict(body)])

RowOf(in) ==
    JDict([id |-> JInt(7), related_user_id |-> JInt(4), created_at |-> JStr(D1),
           name |-> JStr(<<"n">>), data |-> DataValue(in)])

Inputs ==
    {in \in [parser : Parsers, kind : Kinds, data : {"null", "object"},
             params : ParamsShapes, passengers : PassengerShapes, items : ItemsChoices] :
        /\ in.parser = "car_ads" => in.kind = "car"
        /\ in.parser = "flight_ads" => in.kind = "flight"
        /\ in.parser = "hotel_ads" => in.kind = "hotel"
        /\ in.data = "null" =>
              in.params = "missing" /\ in.passengers = "missing" /\ in.items.shape = "missing"
        /\ in.params \in {"missing", "null"} => in.passengers = "missing"}

\* ---------------------------------------------------------- the run
PZero ==
    /\ pPc = "ready"
    /\ pIdx = 0
    /\ pOut = <<>>

PIdle ==
    /\ pIn = [parser |-> "car_ads", kind |-> "car", data |-> "null", params |-> "missing",
              passengers |-> "missing", items |-> [shape |-> "missing", kinds |-> <<>>]]
    /\ pPc = "off"
    /\ pIdx = 0
    /\ pOut = <<>>

PInit ==
    /\ pIn \in Inputs
    /\ PZero

pFrame == <<cdcVars, incVars, orchVars, fbVars, replVars, xfVars>>

PGen == Apply(pIn.parser, RowOf(pIn))

\* `for ad in parser(row)` begins: the parser's code before its loop runs,
\* then the item list is looked up and iteration over it starts.
PCall ==
    /\ pPc = "ready"
    /\ pPc' = IF PGen.raises \/ IterOf(PGen.items).t = "notfound" THEN "raised" ELSE "iter"
    /\ UNCHANGED <<pIn, pIdx, pOut, pFrame>>

\* One item: ad.get raises for an item that is no dict, otherwise one flat
\* record is yielded.
PYield ==
    /\ pPc = "iter"
    /\ pIdx < Len(IterOf(PGen.items).v)
    /\ LET ad == IterOf(PGen.items).v[pIdx + 1]
       IN  IF ad.t # "dict"
           THEN pPc' = "raised" /\ UNCHANGED <<pIdx, pOut>>
           ELSE /\ pOut' = Append(pOut, Merge(parse_inline(ad, RowOf(pIn)), PGen.fields))
                /\ pIdx' = pIdx + 1
                /\ UNCHANGED pPc
    /\ UNCHANGED <<pIn, pFrame>>

\* The item list is exhausted.
PEnd ==
    /\ pPc = "iter"
    /\ pIdx = Len(IterOf(PGen.items).v)
    /\ pPc' = "done"
    /\ UNCHANGED <<pIn, pIdx, pOut, pFrame>>

NextParse ==
    \/ PCall
    \/ PYield
    \/ PEnd

\* --------------------------------------------------------- specifications
Init == CdcInit /\ IncIdle /\ OrchIdle /\ FbIdle /\ ReplIdle /\ XfIdle /\ PIdle

Spec == Init /\ [][Next]_vars

InitInc == CdcIdle /\ IncInit /\ OrchIdle /\ FbIdle /\ ReplIdle /\ XfIdle /\ PIdle

SpecInc == InitInc /\ [][NextInc]_vars

InitClean ==
    /\ CdcIdle
    /\ incPath = "_stream_table"
    /\ incTable \in CleanupTables
    /\ IncZero
    /\ OrchIdle
    /\ FbIdle
    /\ ReplIdle
    /\ XfIdle
    /\ PIdle

SpecClean == InitClean /\ [][NextClean]_vars

InitOrch == CdcIdle /\ IncIdle /\ OrchInit /\ FbIdle /\ ReplIdle /\ XfIdle /\ PIdle

SpecOrch == InitOrch /\ [][NextOrch]_vars

InitFetch == CdcIdle /\ IncIdle /\ OrchIdle /\ FbIdle /\ ReplIdle /\ XfIdle /\ PIdle

SpecFetch == InitFetch /\ [][NextFetch]_vars

InitRepl == CdcIdle /\ IncIdle /\ OrchIdle /\ FbIdle /\ ReplInit /\ XfIdle /\ PIdle

SpecRepl == InitRepl /\ [][NextRepl]_vars

InitXf == CdcIdle /\ IncIdle /\ OrchIdle /\ FbIdle /\ ReplIdle /\ XfInit /\ PIdle

SpecXf == InitXf /\ [][NextXf]_vars

\* Repeated runs of _stream_table over a source table that is no longer
\* written: the table holds its rows from the start.
InitDrain ==
    /\ CdcIdle
    /\ incPath = "_stream_table"
    /\ incTable \in {"users_appuser", "users_deviceuser"}
    /\ srcTab \in [IncIds -> 0..MaxTs]
    /\ chExists = FALSE
    /\ chRows = {}
    /\ wm = PyNone
    /\ wmCall = NoCall
    /\ q = NoQuery
    /\ incPc = "idle"
    /\ incRuns = 0
    /\ fetched = 0
    /\ before = {}
    /\ quiet = FALSE
    /\ prevCut = FALSE
    /\ wroteSince = FALSE
    /\ wmHigh = 0
    /\ wmSince = 0
    /\ clRun = 0
    /\ OrchIdle
    /\ FbIdle
    /\ ReplIdle
    /\ XfIdle
    /\ PIdle

NextDrain ==
    \/ IncStart
    \/ IncLookup
    \/ IncBuild
    \/ IncFetchLoad
    \/ IncCrash

SpecDrain == InitDrain /\ [][NextDrain]_vars

InitParse == CdcIdle /\ IncIdle /\ OrchIdle /\ FbIdle /\ ReplIdle /\ XfIdle /\ PInit

SpecParse == InitParse /\ [][NextParse]_vars

\* ================================================================= claims

\* Rows with an INSERT event after the slot's pinned LSN.
InsertedAfterPin ==
    {r \in Ids : \E i \in (slot.pin + 1)..Len(wal) : wal[i] = [op |-> "INSERT", id |-> r]}

C2_NoOverAck ==
    (slot.exists /\ (pc \in {"open", "stream", "ack"} \/ ~first_run))
        => slot.confirmed <= destLsn

C2_Witness ==
    /\ runs >= 2 /\ pc = "stream"
    /\ slot.exists /\ slot.confirmed < destLsn

\* C3 as stated: a stream batch committed a second time (replayed from the
\* unchanged confirmed LSN) leaves the destination as it was.
C3_ReplayIsNoOp ==
    [][(pc = "stream" /\ pc' = "ack" /\ lastBatch' = lastBatch /\ lastBatch.hi > lastBatch.lo)
          => dest' = dest]_vars

\* C5 as stated: once a batch is committed, a row whose last event up to
\* the committed LSN is a DELETE is not in the destination.
C5_DeleteUnobservable ==
    pc = "ack" => \A r \in Ids : LastOp(r, destLsn) = "DELETE" => dest[r] = 0

\* C6: a run streams only from an existing slot whose snapshot has been
\* loaded completely, the first batch read after init_replication starts at
\* the snapshot's pinned LSN, and the confirmed LSN never falls behind it.
C6_SnapshotBeforeStream ==
    /\ pc \in {"open", "stream", "ack"} => (slot.exists /\ slotGen > 0 /\ loadedGen = slotGen)
    /\ firstLo # -1 => firstLo = slot.pin
    /\ slot.exists => slot.confirmed >= slot.pin

C6_Witness ==
    /\ pc = "ack" /\ snapRun
    /\ slot.pin > 0 /\ firstLo = slot.pin
    /\ destLsn > slot.pin

\* C7: init_replication(reset=True) is reached only while the pipeline
\* reports first_run; once a snapshot load has completed, first_run stays
\* false, the slot of that load is never dropped or recreated, and no run is
\* on the snapshot path.
C7_ResetOnlyOnFirstRun ==
    /\ pc \in {"init", "snapload"} => first_run
    /\ resetSeen
    /\ loadedGen # 0 =>
          /\ ~first_run
          /\ slot.exists /\ slotGen = loadedGen
          /\ pc \notin {"init", "snapload"}

C7_Witness ==
    /\ slotGen >= 2 /\ loadedGen = slotGen
    /\ runs >= 3 /\ ~snapRun /\ pc = "ack"

\* C8 as stated: with wal_level other than logical, or a role with neither
\* superuser nor replication privilege, no run reaches init_replication and
\* no slot or publication is ever dropped or created.
C8_InitOnlyAfterCheck ==
    check_pg # "ok" => (pc # "init" /\ slotGen = 0)

\* C9 as stated: when the lookup found no destination table, the query the
\* resource builds has no watermark condition and no watermark parameter.
C9_AbsentMeansNoFilter ==
    (incPc = "fetch" /\ ~wmCall.existed) => (~q.where /\ q.param = PyNone)

\* The column whose MAX the resource's lookup reads.
LookupCol ==
    IF incPath = "stream_table" THEN "created_at"
    ELSE TABLE_TO_FIELD_MAPPING(incTable)

\* C10 as stated: the lookup returns MAX(column) when the table exists, and
\* when a warehouse query it issues fails it logs, does not raise and returns
\* absent.
C10_AnyFailureReturnsAbsent ==
    /\ (wmCall.existsFails \/ (wmCall.existed /\ wmCall.maxFails))
          => (~wmCall.raised /\ wmCall.logged)
    /\ (incPc = "build" /\ wmCall.existed /\ ~wmCall.maxFails)
          => wm.val = MaxOf(LookupCol, chRows)

\* The MAX query of the last lookup was issued and failed.
LookupFailed == wmCall.existed /\ wmCall.maxFails

LookupReadMax == incPc = "lookup" /\ incPc' = "build" /\ chExists /\ ~wmCall'.maxFails

C12_BatchesAndRows ==
    /\ \A i \in 1..Len(fbOut) : fbOut[i] = i
    /\ fbPc = "closed" =>
          /\ Len(fbSizes) = CeilDiv(fbN, fbB)
          /\ \A i \in 1..(Len(fbSizes) - 1) : fbSizes[i] = fbB
          /\ Len(fbSizes) > 0 =>
                fbSizes[Len(fbSizes)] = fbN - (Len(fbSizes) - 1) * fbB
          /\ fbOut = [i \in 1..fbN |-> i]

C12_Witness ==
    /\ fbPc = "closed" /\ fbB = 2 /\ fbN = 2 * fbB + 1
    /\ fbSizes = <<fbB, fbB, 1>> /\ Len(fbOut) = fbN

\* C13: the number of fetchmany calls is bounded by ceil(N/B) + 1, the
\* generator ends at its first and only empty fetch, and every invocation
\* starts with nothing yielded, a cursor before the first row of its own
\* result set and a connection of its own.
C13_EndsAtFirstEmptyFetch ==
    /\ fbFetches <= CeilDiv(fbN, fbB) + 1
    /\ fbPc = "closed" => (fbLast = 0 /\ fbFetches = Len(fbSizes) + 1 /\ fbPos = fbN)
    /\ (fbPc = "fetch" /\ fbFetches = 0) => (fbPos = 0 /\ fbOut = <<>>)
    /\ fbPc \in {"fetch", "yield", "closed"} => fbConns >= 1
    /\ fbConns <= fbInv

C13_Witness ==
    /\ fbInv = 2 /\ fbConns = 2 /\ fbPc = "closed"
    /\ fbN >= 3 /\ fbFetches = CeilDiv(fbN, fbB) + 1

\* C14 as stated: a connection or query error of the Batched Source Reader
\* propagates to the caller as an exception, and the run it fails exits
\* non-zero.
C14_FetchErrorFailsRun ==
    /\ (opc = "raised" /\ ocause = "fetch_error") => oexc = "Exception"
    /\ (opc = "exited" /\ ocause = "fetch_error") => oexit # 0

\* C15 as stated: in a one-shot invocation an exception that escapes
\* pg.run() is logged at the boundary and the process exits non-zero; the
\* exit code is 0 exactly when the run succeeded.
C15_ExitZeroOnlyOnSuccess ==
    (omode = "oneshot" /\ opc = "exited") =>
        /\ (ofailed # "" /\ ocause # "SystemExit") => olog
        /\ oexit = 0 <=> ofailed = ""

\* C16 as stated: a run with a failed sub-step is reported as failed through
\* its exit code, whatever sub-steps returned before it.
C16_FailedStepFailsRun ==
    (opc = "exited" /\ ofailed # "") => oexit > 0


\* The positions of a run in which its stream reader is STREAMING (waiting
\* for changes, backing off after a dropped connection, acknowledging), and
\* the positions in which the run and its reader have ended.
ReaderStreaming == {"stream", "retry", "ack"}

ReaderEnded == {"done", "failed"}

\* C17: a dropped connection while streaming is followed by a reconnect that
\* takes the reader back to streaming from the slot's confirmed LSN, and the
\* reader leaves streaming for an end state only by closing: it never ends
\* failed.
C17_StreamingEndsOnlyClosed ==
    [][/\ (pc = "retry" /\ pc' \notin {"retry", "idle"}) => (pc' = "stream" /\ slot' = slot)
       /\ (pc \in ReaderStreaming /\ pc' \in ReaderEnded) => pc' = "done"]_vars


\* The consumers of a slot's stream: pairs <<process, resource index>>.
ConsumersOf(sl) == {c \in rHeld : SlotOfConsumer(c) = sl}

\* C18: every slot has at most one consumer at a time; a process whose
\* stream request met a consumed slot has failed without taking the slot,
\* and it was another process that held it: the resources of one run ask
\* for pairwise different slots.
C18_OneConsumerPerSlot ==
    /\ \A sl \in SlotNames : Cardinality(ConsumersOf(sl)) <= 1
    /\ \A p \in Procs :
          rRefusedBy[p] # 0 =>
              /\ rPc[p] = "failed" /\ rExit[p] # 0
              /\ rRefusedBy[p] # p
              /\ \A c \in rHeld : c[1] # p
    /\ \A p \in Procs :
          rEntry[p] # "none" =>
              Cardinality(SlotsOf(rEntry[p])) = Len(CdcResources(rEntry[p]))

\* A second invocation of log_table was refused the slot the first one is
\* streaming, and the first one consumes its two slots.
C18_Witness ==
    \E p, h \in Procs :
        /\ rRefusedBy[p] = h /\ rPc[p] = "failed"
        /\ rEntry[h] = "log_table" /\ rPc[h] = "streaming"
        /\ Cardinality({SlotOfConsumer(c) : c \in {d \in rHeld : d[1] = h}}) = 2

\* C19: a run that streams does so with publications whose table set is the
\* table list the run is configured with; with a different set the run ends
\* with an error instead of streaming.
C19_PublicationMatchesConfig ==
    \A p \in Procs :
        rPc[p] = "streaming" =>
            \A i \in DOMAIN CdcResources(rEntry[p]) :
                pubTabs[CdcResources(rEntry[p])[i].pub] = cfgTabs[rEntry[p]]


\* The order of specification 4.5: the suffixes with their parsers.
SuffixOrder ==
    <<[suffix |-> S_car, parser |-> "car_ads"],
      [suffix |-> S_flight, parser |-> "flight_ads"],
      [suffix |-> S_hotel, parser |-> "hotel_ads"],
      [suffix |-> S_ad_fetch, parser |-> "legacy_inline_ad"]>>

FirstMatch(name) ==
    LET hits == {k \in DOMAIN SuffixOrder : EndsWith(name, SuffixOrder[k].suffix)}
    IN  IF hits = {} THEN "skipped"
        ELSE SuffixOrder[CHOOSE k \in hits : \A j \in hits : k <= j].parser

\* C20: in every transformer, each processed row was taken by the parser of
\* the first suffix in the order car, flight, hotel, ad_fetch that its name
\* ends with (an ad_fetch row by the legacy parser), and a row matching none
\* was logged and skipped.
C20_DispatchOrder ==
    /\ \A i \in 1..xPos : xBy[i] = FirstMatch(xRows[i])
    /\ xWarnings = SelectSeq(SubSeq(xRows, 1, xPos), LAMBDA n : FirstMatch(n) = "skipped")


\* A name that is text and ends with none of the four suffixes.
UnknownType(name) == name # NoName /\ FirstMatch(name) = "skipped"

InlineAdsVariants == {"travel.inline_ads", "log_table.inline_ads"}

\* C21: when inline_ads takes a row of unknown type, it yields no record for
\* it, logs one warning (the row's name), raises nothing and stands at the
\* next row.
C21_UnknownTypeSkipped ==
    [][(/\ xVariant \in InlineAdsVariants
        /\ xPos < Len(xRows) /\ ~xErr
        /\ UnknownType(xRows[xPos + 1])
        /\ <<xPos, xErr>>' # <<xPos, xErr>>)
          => /\ ~xErr'
             /\ xPos' = xPos + 1
             /\ xWarnings' = Append(xWarnings, xRows[xPos + 1])
             /\ xYielded' = Append(xYielded, 0)]_vars

\* An unknown row was skipped with one warning and the row after it was
\* parsed into records.
C21_Witness ==
    /\ xVariant \in InlineAdsVariants
    /\ xPos = 2 /\ ~xErr
    /\ UnknownType(xRows[1])
    /\ xWarnings = <<xRows[1]>>
    /\ xBy[2] = "car_ads" /\ xYielded[2] > 0

\* What the generator yields for a car row whose params carry both dates and
\* whose inlineItems is a list of objects that each have a rank.
CarRowRanked ==
    /\ pIn.parser = "car_ads"
    /\ pIn.data = "object"
    /\ pIn.params = "full"
    /\ pIn.items.shape = "list"
    /\ \A i \in DOMAIN pIn.items.kinds : pIn.items.kinds[i] \in {"r1", "r2"}

IdText(k) == IF k = "r1" THEN <<"7", "-", "1">> ELSE IF k = "r2" THEN <<"7", "-", "2">> ELSE <<"7", "-", "N", "o", "n", "e">>

\* C22: car_ads on a car row with pickUpDate d1, dropOffDate d2 and n nested
\* inlineItems never raises and yields exactly n records, in item order,
\* each with start_date d1, end_date d2 and id "{row id}-{item rank}".
C22_CarAdsRecords ==
    CarRowRanked =>
        /\ pPc # "raised"
        /\ Len(pOut) = pIdx
        /\ pPc = "done" => Len(pOut) = Len(pIn.items.kinds)
        /\ \A i \in DOMAIN pOut :
              /\ pOut[i].start_date = JStr(D1)
              /\ pOut[i].end_date = JStr(D2)
              /\ pOut[i].id = JStr(IdText(pIn.items.kinds[i]))

C22_Witness ==
    /\ CarRowRanked
    /\ pIn.items.kinds = <<"r2", "r1">>
    /\ pPc = "done"
    /\ Len(pOut) = 2
    /\ pOut[1].id = JStr(<<"7", "-", "2">>)
    /\ pOut[2].id = JStr(<<"7", "-", "1">>)

\* The nested ad items of the row: the elements of inlineItems when it is a
\* list of objects, none when it is missing.
ItemsAreObjects ==
    /\ pIn.data = "object"
    /\ pIn.items.shape \in {"missing", "list"}
    /\ \A i \in DOMAIN pIn.items.kinds : pIn.items.kinds[i] # "bare"

\* C23: for every row and every parser, as many records are emitted as the
\* row has nested ad items (none when the list is empty or missing), and
\* the ids of the records of one row are pairwise distinct.
C23_OnePerItemDistinctIds ==
    (ItemsAreObjects /\ pPc = "done") =>
        /\ Len(pOut) = Len(pIn.items.kinds)
        /\ \A i, j \in DOMAIN pOut : i # j => pOut[i].id # pOut[j].id

\* The count half of C23 alone.
C23_OnePerItem ==
    (ItemsAreObjects /\ pPc = "done") => Len(pOut) = Len(pIn.items.kinds)

\* The columns a parser fills from the search parameters.
ParamColumns == {"start_date", "end_date", "origin", "destination", "cabin_class", "travelers"}

ParamsAbsent == pIn.data = "null" \/ pIn.params \in {"missing", "null"}

\* C24: whatever is missing, null or of an unexpected type in the payload,
\* the parser completes without raising, and what it could not find is null
\* in the records it emits.
C24_MalformedDegradesToNull ==
    /\ pPc # "raised"
    /\ ParamsAbsent =>
          \A i \in DOMAIN pOut : \A c \in ParamColumns \ {"travelers"} : pOut[i][c].t = "null"

JEq(a, b) == a.t = b.t /\ a.v = b.v

Columns ==
    {"id", "user_id", "rank", "site", "headline", "product_type", "description",
     "booking_button_text", "cpc_price", "cpc_currency", "cabin_class", "travelers",
     "start_date", "end_date", "origin", "destination", "os", "country", "created_at",
     "version"}

\* The same search logged in the other schema: legacy for a current row,
\* the parser of the row's kind for a legacy row.
Twin ==
    [pIn EXCEPT !.parser = IF pIn.parser # "legacy_inline_ad" THEN "legacy_inline_ad"
                           ELSE IF pIn.kind = "car" THEN "car_ads"
                           ELSE IF pIn.kind = "flight" THEN "flight_ads"
                           ELSE "hotel_ads"]

\* C25: legacy and current records have the same columns in the same
\* representation and differ only in version: 1.0 from legacy_inline_ad,
\* 2.0 from car_ads, flight_ads and hotel_ads.
C25_SameShapeBothSchemas ==
    \A i \in DOMAIN pOut :
        /\ DOMAIN pOut[i] = Columns
        /\ pOut[i].version.v = IF pIn.parser = "legacy_inline_ad" THEN <<"1", ".", "0">>
                               ELSE <<"2", ".", "0">>
        /\ \A c \in DOMAIN PGen.fields \ {"version"} :
              JEq(pOut[i][c], Apply(Twin.parser, RowOf(Twin)).fields[c])

\* What C25 says of the column set and of the version tag alone.
C25_ColumnsAndVersion ==
    \A i \in DOMAIN pOut :
        /\ DOMAIN pOut[i] = Columns
        /\ pOut[i].version.v = IF pIn.parser = "legacy_inline_ad" THEN <<"1", ".", "0">>
                               ELSE <<"2", ".", "0">>

\* A completed run whose watermark-filtered query returned no row. With no
\* source write the destination, its MAX and the query stay as they are:
\* every later run returns no row either.
Drained ==
    /\ incPc = "done"
    /\ q.where
    /\ fetched = 0

\* C26: with a non-decreasing tracking column and no further source writes,
\* repeated runs of the incremental path bring every source row into the
\* destination; `> watermark` with ORDER BY ... LIMIT never skips a row for
\* good, rows sharing the tracking value of the last loaded row included.
\* Finite form: once a run finds nothing beyond the watermark, every source
\* row is in the destination.
C26_NoRowSkippedForGood ==
    Drained => \A r \in SrcRowsInc : r \in chRows

\* The same for the tables tracked by their unique id.
C26_IdTracked ==
    (Drained /\ TABLE_TO_FIELD_MAPPING(incTable) = "id") => \A r \in SrcRowsInc : r \in chRows

\* The column whose MAX the run's lookup reads from the warehouse.
LookupColumn == IF incPath = "stream_table" THEN "created_at" ELSE TABLE_TO_FIELD_MAPPING(incTable)

\* C27: in every incremental path the value bound to the query's watermark
\* parameter is the scalar MAX read from the warehouse, read for the very
\* column the WHERE clause compares, for the table streams and for the
\* inline-ad log stream.
C27_FilterColumnIsReadColumn ==
    (incPc = "fetch" /\ q.where) =>
        /\ q.param.kind = "scalar"
        /\ q.whereCol = LookupColumn
        /\ q.param.val = MaxOf(LookupColumn, chRows)

\* The same for the table streams alone.
C27_TableStreams ==
    (incPc = "fetch" /\ q.where /\ incPath # "inline_ads") =>
        /\ q.param.kind = "scalar"
        /\ q.whereCol = LookupColumn
        /\ q.param.val = MaxOf(LookupColumn, chRows)

\* C28: in scheduled mode a failed run never ends the scheduling loop:
\* whatever pg.run fails with, an exception from a load or the SystemExit of
\* a failed preflight check, safe_pg_pipeline returns normally and the next
\* hourly invocation takes place.
C28_ScheduleSurvivesFailure ==
    [][(omode = "schedule" /\ opc = "raised") => opc' = "returned" /\ oexit' = -1]_vars

\* The same for the failures that derive from Exception.
C28_ExceptionsSurvived ==
    [][(omode = "schedule" /\ opc = "raised" /\ oexc = "Exception") => opc' = "returned"]_vars

StepOrder == <<"pre_travel", "log", "travel", "cleanup", "pre_dash", "dash">>

\* C29: pg.run executes preflight (travel), inline-ad log load, travel tables
\* load, ClickHouse cleanup, preflight (dashboard), dashboard tables load in
\* this order, each step only after all earlier ones completed without
\* error: the cleanup runs only after both loads completed, and with
\* SKIP_CH_CLEANUP set it executes no statement and opens no connection.
C29_StepOrderAndCleanup ==
    /\ osteps = SubSeq(StepOrder, 1, Len(osteps))
    /\ opc \in {StepOrder[i] : i \in DOMAIN StepOrder} => opc = StepOrder[Len(osteps) + 1]
    /\ opc = "raised" => ofailed = StepOrder[Len(osteps) + 1]
    /\ (oclOpened > 0 \/ oclStmts > 0) =>
          /\ ~skipCleanup
          /\ Len(osteps) >= 3
          /\ oclOpened = 1
    /\ oclStmts > 0 => oclOpened = 1
    /\ skipCleanup => oclOpened = 0 /\ oclStmts = 0

C29_Witness ==
    /\ ~skipCleanup
    /\ ojobs = 2
    /\ opc = "pre_dash"
    /\ oclOpened = 1
    /\ oclStmts = CleanupStatements
    /\ osteps = <<"pre_travel", "log", "travel", "cleanup">>

\* The second case of C29: the cleanup step passed with SKIP_CH_CLEANUP set.
C29_SkippedReached ==
    /\ skipCleanup
    /\ opc = "pre_dash"
    /\ oclOpened = 0
    /\ oclStmts = 0

\* C30: every ClickHouse client opened by _get_last_for_column,
\* _check_clickhouse and run_clickhouse_post_dlt_cleanup is closed before
\* the function returns or raises, on every path: table absent, MAX query
\* succeeds, MAX query fails, a statement fails. Here for the lookup of the
\* resources that call _get_last_for_column: once the lookup is over, its
\* client is closed.
C30_LookupClientClosed ==
    (incPath \in {"_stream_table", "inline_ads"} /\ incPc # "lookup") => wmCall.closed

\* The paths of _get_last_for_column on which the client is closed: the
\* table is absent, or the MAX query failed.
C30_ClosedWhenNothingRead ==
    (/\ incPath \in {"_stream_table", "inline_ads"}
     /\ incPc \in {"build", "fetch", "done"}
     /\ ~wmCall.existed \/ wmCall.maxFails) => wmCall.closed

\* The cleanup step leaves no client open, however it ends.
C30_CleanupCloses ==
    [][opc = "cleanup" => ochLeft' = ochLeft]_vars

\* No client of a preflight, a load or the cleanup stays open.
C30_NoClientLeftOpen == ochLeft = 0

====
